---------------------------- MODULE Spec2Model ----------------------------
(***************************************************************************)
(* Signature-compatibility analyzer of scripts/check_signatures.py:        *)
(* the hierarchy resolver (_resolve_inheritance), the return-type          *)
(* normalizer (_normalize_return_type) and the signature differ            *)
(* (_compare_signatures).                                                  *)
(*                                                                         *)
(* A Python str is a sequence of one-character strings, so that rendering, *)
(* joining, substring search and replacement are computed and not assumed. *)
(* A pc.Option is a sequence of length 0 (NONE) or 1 (Some).  A pc.Dict is *)
(* an insertion-ordered sequence of [key, value] entries with unique keys. *)
(***************************************************************************)
EXTENDS Integers, Sequences, FiniteSets, TLC

VARIABLES
    class_sigs,     \* parsed per-class tables handed to _resolve_inheritance
    visit_order,    \* the order in which this process iterates TARGET_CLASSES
    resolved,       \* the flattened table _resolve_inheritance returned
    resolve_done,   \* whether _resolve_inheritance has returned
    pathlib_sigs,   \* flattened left table handed to _compare_signatures
    pyopath_sigs,   \* flattened right table handed to _compare_signatures
    diffs,          \* the pc.Vec[Difference] returned by the last call
    prev_diffs,     \* what the call before the last returned
    calls,          \* how many times _compare_signatures has been called
    item,           \* the function definition _process_class is looking at
    extracted,      \* the SignatureInfo extracted from item, once it is
    member_name,    \* the name handed to _should_include_method
    included,       \* what _should_include_method returned, once it has
    tree,           \* the body of the module ast.parse returned
    parsed,         \* the per-class tables _parse_stub_file returned
    parse_done,     \* whether _parse_stub_file has returned
    member,         \* the Member that Member.with_type is called on
    obj,            \* the object handed to Member.with_type
    with_type_done  \* whether Member.with_type has returned

resolver_vars == <<class_sigs, visit_order, resolved, resolve_done>>

differ_vars == <<pathlib_sigs, pyopath_sigs, diffs, prev_diffs, calls>>

parser_vars == <<item, extracted, member_name, included, tree, parsed, parse_done>>

member_vars == <<member, obj, with_type_done>>

vars == <<resolver_vars, differ_vars, parser_vars, member_vars>>

\* No file is being parsed.
parser_idle ==
    /\ item = <<>>
    /\ extracted = <<>>
    /\ member_name = <<>>
    /\ included = <<>>
    /\ tree = <<>>
    /\ parsed = <<>>
    /\ parse_done = FALSE

\* No Member is being typed.
member_idle ==
    /\ member = <<>>
    /\ obj = <<>>
    /\ with_type_done = FALSE

\* No table is being resolved or compared.
tables_idle ==
    /\ class_sigs = <<>>
    /\ visit_order = <<>>
    /\ resolved = <<>>
    /\ resolve_done = FALSE
    /\ pathlib_sigs = <<>>
    /\ pyopath_sigs = <<>>
    /\ diffs = <<>>
    /\ prev_diffs = <<>>
    /\ calls = 0

---------------------------------------------------------------------------
(* String literals of the source.                                          *)

sSelf == <<"S", "e", "l", "f">>
sPurePath == <<"P", "u", "r", "e", "P", "a", "t", "h">>
sPurePosixPath == <<"P", "u", "r", "e", "P", "o", "s", "i", "x", "P", "a", "t", "h">>
sPureWindowsPath == <<"P", "u", "r", "e", "W", "i", "n", "d", "o", "w", "s", "P", "a", "t", "h">>
sPath == <<"P", "a", "t", "h">>
sPosixPath == <<"P", "o", "s", "i", "x", "P", "a", "t", "h">>
sWindowsPath == <<"W", "i", "n", "d", "o", "w", "s", "P", "a", "t", "h">>
sGenerator == <<"G", "e", "n", "e", "r", "a", "t", "o", "r">>
sIterator == <<"I", "t", "e", "r", "a", "t", "o", "r">>
sSequence == <<"S", "e", "q", "u", "e", "n", "c", "e">>
stuple == <<"t", "u", "p", "l", "e">>
sNA == <<"N", "/", "A">>
sproperty == <<"p", "r", "o", "p", "e", "r", "t", "y">>
smethod == <<"m", "e", "t", "h", "o", "d">>

---------------------------------------------------------------------------
(* pc.Option and pc.Dict.                                                  *)

NONE == <<>>

Some(v) == <<v>>

is_some(o) == Len(o) = 1

\* pc.Dict.get_item: Some(value) of the entry stored under key k, else NONE.
get_item(d, k) ==
    LET hits == {i \in DOMAIN d : d[i].key = k}
    IN  IF hits = {} THEN NONE ELSE Some(d[CHOOSE i \in hits : TRUE].value)

\* pc.Dict.insert / d[k] = v: overwrite in place, or append a new key last.
insert(d, k, v) ==
    IF \E i \in DOMAIN d : d[i].key = k
    THEN [i \in DOMAIN d |-> IF d[i].key = k THEN [key |-> k, value |-> v] ELSE d[i]]
    ELSE Append(d, [key |-> k, value |-> v])

\* The keys of a dict, in iteration order.
keys(d) == [i \in DOMAIN d |-> d[i].key]

\* Iter.join(sep): the strings of ss with sep between neighbours.
RECURSIVE join(_, _)
join(ss, sep) ==
    IF Len(ss) = 0 THEN <<>>
    ELSE IF Len(ss) = 1 THEN ss[1]
    ELSE ss[1] \o sep \o join(Tail(ss), sep)

---------------------------------------------------------------------------
(* ParamInfo, SignatureInfo, Difference.                                   *)

ParamInfo(name, kind, default_repr) ==
    [name |-> name, kind |-> kind,
     has_default |-> is_some(default_repr), default_repr |-> default_repr]

\* Mutant: a var-keyword parameter is rendered with one '*'.
to_str_onestar(p) ==
    LET prefix == IF p.kind \in {"var_positional", "var_keyword"} THEN <<"*">> ELSE <<>>
        suffix == IF is_some(p.default_repr) THEN <<"=">> \o p.default_repr[1] ELSE <<>>
    IN  prefix \o p.name \o suffix

\* ParamInfo.to_str
to_str(p) ==
    LET prefix == IF p.kind = "var_positional" THEN <<"*">>
                  ELSE IF p.kind = "var_keyword" THEN <<"*", "*">>
                  ELSE <<>>
        suffix == IF is_some(p.default_repr) THEN <<"=">> \o p.default_repr[1] ELSE <<>>
    IN  prefix \o p.name \o suffix

SignatureInfo(class_name, method_name, params, return_type, is_property, is_classmethod, is_staticmethod) ==
    [class_name |-> class_name, method_name |-> method_name, params |-> params,
     return_type |-> return_type, is_property |-> is_property,
     is_classmethod |-> is_classmethod, is_staticmethod |-> is_staticmethod]

\* SignatureInfo.params_str
params_str(sig) ==
    join([i \in DOMAIN sig.params |-> to_str(sig.params[i])], <<",", " ">>)

\* SignatureInfo.full_sig
full_sig(sig) ==
    <<"(">> \o params_str(sig) \o <<")", " ", "-", ">", " ">> \o sig.return_type

Difference(class_name, method_name, issue, pathlib_val, pyopath_val) ==
    [class_name |-> class_name, method_name |-> method_name, issue |-> issue,
     pathlib_val |-> pathlib_val, pyopath_val |-> pyopath_val]

---------------------------------------------------------------------------
(* The syntax tree handed to the parser.  An expression node is a record   *)
(* [node, val, is_str, kids]: node names the ast class, val holds the id   *)
(* of a Name, the attr of an Attribute, the str() text of a Constant's      *)
(* value or, for a node of any other class, the text ast.unparse gives;     *)
(* is_str tells whether a Constant's value is a str; kids are the child     *)
(* expressions in field order.  An optional node is a pc.Option.            *)

sself == <<"s", "e", "l", "f">>
scls == <<"c", "l", "s">>
sNone == <<"N", "o", "n", "e">>
sclassmethod == <<"c", "l", "a", "s", "s", "m", "e", "t", "h", "o", "d">>
sstaticmethod == <<"s", "t", "a", "t", "i", "c", "m", "e", "t", "h", "o", "d">>
soverload == <<"o", "v", "e", "r", "l", "o", "a", "d">>
s__fspath__ == <<"_", "_", "f", "s", "p", "a", "t", "h", "_", "_">>
s__truediv__ == <<"_", "_", "t", "r", "u", "e", "d", "i", "v", "_", "_">>
s__rtruediv__ == <<"_", "_", "r", "t", "r", "u", "e", "d", "i", "v", "_", "_">>

Name(id) == [node |-> "Name", val |-> id, is_str |-> FALSE, kids |-> <<>>]

Constant(text, is_str) == [node |-> "Constant", val |-> text, is_str |-> is_str, kids |-> <<>>]

Attribute(value, attr) == [node |-> "Attribute", val |-> attr, is_str |-> FALSE, kids |-> <<value>>]

Subscript(value, slice) == [node |-> "Subscript", val |-> <<>>, is_str |-> FALSE, kids |-> <<value, slice>>]

TupleNode(elts) == [node |-> "Tuple", val |-> <<>>, is_str |-> FALSE, kids |-> elts]

BitOrNode(left, right) == [node |-> "BinOp", val |-> <<"|">>, is_str |-> FALSE, kids |-> <<left, right>>]

ListNode(elts) == [node |-> "List", val |-> <<>>, is_str |-> FALSE, kids |-> elts]

\* A node of a class _ast_to_type_str has no case for, with its source text.
OtherNode(text) == [node |-> "Other", val |-> text, is_str |-> FALSE, kids |-> <<>>]

\* ast.unparse, for the nodes of the tree that carry their source text.
unparse(node) == node.val

\* _ast_to_type_str of an optional node.
RECURSIVE _ast_to_type_str(_)
_ast_to_type_str(node) ==
    IF ~is_some(node) THEN sNone
    ELSE LET n == node[1]
             sub(i) == _ast_to_type_str(Some(n.kids[i]))
         IN  CASE n.node = "Constant" ->
                    IF n.is_str THEN <<"'">> \o n.val \o <<"'">> ELSE n.val
               [] n.node = "Name" -> n.val
               [] n.node = "Attribute" -> sub(1) \o <<".">> \o n.val
               [] n.node = "Subscript" -> sub(1) \o <<"[">> \o sub(2) \o <<"]">>
               [] n.node = "Tuple" ->
                    join([i \in DOMAIN n.kids |-> sub(i)], <<",", " ">>)
               [] n.node = "BinOp" /\ n.val = <<"|">> ->
                    sub(1) \o <<" ", "|", " ">> \o sub(2)
               [] n.node = "List" ->
                    <<"[">> \o join([i \in DOMAIN n.kids |-> sub(i)], <<",", " ">>) \o <<"]">>
               [] OTHER -> unparse(n)

\* ast.arg
ast_arg(name) == [arg |-> name]

\* ast.arguments
ast_arguments(posonlyargs, args, vararg, kwonlyargs, kw_defaults, kwarg, defaults) ==
    [posonlyargs |-> posonlyargs, args |-> args, vararg |-> vararg,
     kwonlyargs |-> kwonlyargs, kw_defaults |-> kw_defaults, kwarg |-> kwarg,
     defaults |-> defaults]

\* ast.FunctionDef / ast.AsyncFunctionDef
FunctionDef(name, args, decorator_list, returns) ==
    [type |-> "FunctionDef", name |-> name, args |-> args,
     decorator_list |-> decorator_list, returns |-> returns, body |-> <<>>]

\* ast.ClassDef
ClassDef(name, body) ==
    [type |-> "ClassDef", name |-> name, args |-> <<>>,
     decorator_list |-> <<>>, returns |-> NONE, body |-> body]

\* Any other statement.
OtherStmt ==
    [type |-> "Other", name |-> <<>>, args |-> <<>>,
     decorator_list |-> <<>>, returns |-> NONE, body |-> <<>>]

---------------------------------------------------------------------------
(* _extract_param, _extract_function_signature, _should_include_method.    *)

\* _extract_param: default is an optional expression.
_extract_param(arg, default, kind) ==
    [name |-> arg.arg, kind |-> kind, has_default |-> is_some(default),
     default_repr |-> IF is_some(default) THEN Some(_ast_to_type_str(default)) ELSE NONE]

\* Iter.enumerate: pairs <<index from 0, item>>.
enumerate(seq) == [i \in DOMAIN seq |-> <<i - 1, seq[i]>>]

\* Iter.zip(other, strict=False): pairs up to the shorter length.
zip(xs, ys) ==
    [i \in 1..(IF Len(xs) < Len(ys) THEN Len(xs) ELSE Len(ys)) |-> <<xs[i], ys[i]>>]

\* pc.Iter(func.decorator_list).any(isinstance(d, ast.Name) and d.id == id)
has_decorator(func, id) ==
    \E i \in DOMAIN func.decorator_list :
        func.decorator_list[i].node = "Name" /\ func.decorator_list[i].val = id

\* Mutant: the regular parameters are numbered after the receiver is dropped.
regular_args_renumbered(args) ==
    LET not_receiver(a) == a.arg \notin {sself, scls}
    IN  enumerate(SelectSeq(args.args, not_receiver))

\* pc.Iter(args.args).enumerate().filter(arg not in {"self", "cls"})
regular_args(args) ==
    LET not_receiver(idx_arg) == idx_arg[2].arg \notin {sself, scls}
    IN  SelectSeq(enumerate(args.args), not_receiver)

_extract_function_signature(class_name, func, is_property) ==
    LET args == func.args
        is_classmethod == has_decorator(func, sclassmethod)
        is_staticmethod == has_decorator(func, sstaticmethod)
        num_positional == Len(args.posonlyargs) + Len(args.args)
        num_defaults == Len(args.defaults)
        defaults_start == num_positional - num_defaults
        default_at(i) == IF i >= defaults_start
                         THEN Some(args.defaults[i - defaults_start + 1])
                         ELSE NONE
        posonly == enumerate(args.posonlyargs)
        regular == regular_args(args)
        kwonly == zip(args.kwonlyargs, args.kw_defaults)
        params ==
            [i \in DOMAIN posonly |->
               _extract_param(posonly[i][2], default_at(posonly[i][1]), "positional_only")]
            \o [i \in DOMAIN regular |->
                  _extract_param(regular[i][2],
                                 default_at(Len(args.posonlyargs) + regular[i][1]),
                                 "positional_or_keyword")]
            \o (IF is_some(args.vararg)
                THEN <<ParamInfo(args.vararg[1].arg, "var_positional", NONE)>>
                ELSE <<>>)
            \o [i \in DOMAIN kwonly |->
                  _extract_param(kwonly[i][1], kwonly[i][2], "keyword_only")]
            \o (IF is_some(args.kwarg)
                THEN <<ParamInfo(args.kwarg[1].arg, "var_keyword", NONE)>>
                ELSE <<>>)
    IN  SignatureInfo(class_name, func.name, params, _ast_to_type_str(func.returns),
                      is_property, is_classmethod, is_staticmethod)

\* str.startswith
startswith(s, prefix) ==
    Len(prefix) <= Len(s) /\ SubSeq(s, 1, Len(prefix)) = prefix

\* str.endswith
endswith(s, suffix) ==
    Len(suffix) <= Len(s) /\ SubSeq(s, Len(s) - Len(suffix) + 1, Len(s)) = suffix

\* _process_class, lines 252-265: the signature stored for a function item.
item_signature(class_name, func) ==
    _extract_function_signature(class_name, func, has_decorator(func, sproperty))

\* Mutant: a single leading underscore excludes only without a trailing dunder.
_should_include_method_trailing(name) ==
    IF startswith(name, <<"_">>) /\ ~startswith(name, <<"_", "_">>)
       /\ ~endswith(name, <<"_", "_">>)
    THEN FALSE
    ELSE IF startswith(name, <<"_", "_">>) /\ endswith(name, <<"_", "_">>)
    THEN name \in {s__fspath__, s__truediv__, s__rtruediv__}
    ELSE TRUE

_should_include_method(name) ==
    IF startswith(name, <<"_">>) /\ ~startswith(name, <<"_", "_">>)
    THEN FALSE
    ELSE IF startswith(name, <<"_", "_">>) /\ endswith(name, <<"_", "_">>)
    THEN name \in {s__fspath__, s__truediv__, s__rtruediv__}
    ELSE TRUE

---------------------------------------------------------------------------
(* CLASS_HIERARCHY, TARGET_CLASSES and _resolve_inheritance.               *)

CLASS_HIERARCHY ==
    << [key |-> sPurePath,        value |-> <<>>],
       [key |-> sPurePosixPath,   value |-> <<sPurePath>>],
       [key |-> sPureWindowsPath, value |-> <<sPurePath>>],
       [key |-> sPath,            value |-> <<sPurePath>>],
       [key |-> sPosixPath,       value |-> <<sPath, sPurePosixPath, sPurePath>>],
       [key |-> sWindowsPath,     value |-> <<sPath, sPureWindowsPath, sPurePath>>] >>

TARGET_CLASSES ==
    {sPurePath, sPurePosixPath, sPureWindowsPath, sPath, sPosixPath, sWindowsPath}

\* Mutant: a repeated overload is stored like any other declaration.
process_item_no_skip(state, class_name, stmt) ==
    IF stmt.type = "FunctionDef" /\ _should_include_method(stmt.name)
    THEN [methods |-> insert(state.methods, stmt.name, item_signature(class_name, stmt)),
          seen_overloads |-> state.seen_overloads]
    ELSE state

\* Mutant: a name already in the table keeps its first entry.
process_item_keep_first(state, class_name, stmt) ==
    IF stmt.type = "FunctionDef" /\ _should_include_method(stmt.name)
    THEN IF is_some(get_item(state.methods, stmt.name))
         THEN state
         ELSE [methods |-> insert(state.methods, stmt.name,
                                  item_signature(class_name, stmt)),
               seen_overloads |-> state.seen_overloads]
    ELSE state

\* _process_class, lines 247-268: one statement of the class body, on the
\* pair of methods and seen_overloads.
process_item(state, class_name, stmt) ==
    IF stmt.type = "FunctionDef" /\ _should_include_method(stmt.name)
    THEN LET is_overload == has_decorator(stmt, soverload)
         IN  IF is_overload /\ stmt.name \in state.seen_overloads
             THEN state
             ELSE [methods |-> insert(state.methods, stmt.name,
                                      item_signature(class_name, stmt)),
                   seen_overloads |-> IF is_overload
                                      THEN state.seen_overloads \cup {stmt.name}
                                      ELSE state.seen_overloads]
    ELSE state

\* for item in cls.body
RECURSIVE process_body(_, _, _)
process_body(state, class_name, body) ==
    IF body = <<>> THEN state
    ELSE process_body(process_item(state, class_name, Head(body)), class_name, Tail(body))

\* Mutant: a class is processed whatever its name.
_process_class_any_name(result, cls) ==
    insert(result, cls.name,
           process_body([methods |-> <<>>, seen_overloads |-> {}], cls.name, cls.body).methods)

\* _parse_stub_file._process_class, on the result built so far.
_process_class(result, cls) ==
    IF cls.name \notin TARGET_CLASSES THEN result
    ELSE insert(result, cls.name,
                process_body([methods |-> <<>>, seen_overloads |-> {}],
                             cls.name, cls.body).methods)

\* for_each(_process_class) over the class definitions of the module body
RECURSIVE process_classes(_, _)
process_classes(result, classes) ==
    IF classes = <<>> THEN result
    ELSE process_classes(_process_class(result, Head(classes)), Tail(classes))

\* _parse_stub_file, from the body of the parsed module.
_parse_stub_file(module_body) ==
    LET is_class(n) == n.type = "ClassDef"
    IN  process_classes(<<>>, SelectSeq(module_body, is_class))

\* Option.unwrap_or
unwrap_or(o, default) == IF is_some(o) THEN o[1] ELSE default

\* Iter.rev
rev(seq) == [i \in DOMAIN seq |-> seq[Len(seq) + 1 - i]]

\* table.iter().for_each(lambda kv: methods.insert(kv.key, kv.value))
RECURSIVE insert_all(_, _)
insert_all(methods, table) ==
    IF Len(table) = 0 THEN methods
    ELSE insert_all(insert(methods, table[1].key, table[1].value), Tail(table))

\* Mutant: the walk over the parents ends at the first parent without table.
RECURSIVE add_parents_stop(_, _, _)
add_parents_stop(methods, parents, sigs) ==
    IF Len(parents) = 0 THEN methods
    ELSE LET found == get_item(sigs, parents[1])
         IN  IF is_some(found)
             THEN add_parents_stop(insert_all(methods, found[1]), Tail(parents), sigs)
             ELSE methods

\* The tables of the classes named in parents that have one are inserted into
\* methods, first name first.
RECURSIVE add_parents(_, _, _)
add_parents(methods, parents, sigs) ==
    IF Len(parents) = 0 THEN methods
    ELSE LET found == get_item(sigs, parents[1])
         IN  add_parents(IF is_some(found) THEN insert_all(methods, found[1]) ELSE methods,
                         Tail(parents), sigs)

\* Mutant: the own members are inserted before the parents' members.
class_methods_own_first(sigs, class_name) ==
    LET parents == unwrap_or(get_item(CLASS_HIERARCHY, class_name), <<>>)
        own == get_item(sigs, class_name)
    IN  add_parents(IF is_some(own) THEN insert_all(<<>>, own[1]) ELSE <<>>,
                    rev(parents), sigs)

\* Mutant: the parents are applied in listed order, first-listed first.
class_methods_listed_order(sigs, class_name) ==
    LET parents == unwrap_or(get_item(CLASS_HIERARCHY, class_name), <<>>)
        inherited == add_parents(<<>>, parents, sigs)
        own == get_item(sigs, class_name)
    IN  IF is_some(own) THEN insert_all(inherited, own[1]) ELSE inherited

\* Mutant: a class without a table of its own resolves to nothing.
class_methods_declared_only(sigs, class_name) ==
    LET parents == unwrap_or(get_item(CLASS_HIERARCHY, class_name), <<>>)
        inherited == add_parents(<<>>, rev(parents), sigs)
        own == get_item(sigs, class_name)
    IN  IF is_some(own) THEN insert_all(inherited, own[1]) ELSE <<>>

\* The working table "methods" of one target class: the parents' members,
\* last-listed parent first, then the class's own members.
class_methods(sigs, class_name) ==
    LET parents == unwrap_or(get_item(CLASS_HIERARCHY, class_name), <<>>)
        inherited == add_parents(<<>>, rev(parents), sigs)
        own == get_item(sigs, class_name)
    IN  IF is_some(own) THEN insert_all(inherited, own[1]) ELSE inherited

\* Mutant: the stored signature keeps the class name of the declaration.
RECURSIVE add_to_result_keep_class(_, _, _)
add_to_result_keep_class(result, class_name, methods) ==
    IF Len(methods) = 0 THEN result
    ELSE add_to_result_keep_class(
             insert(result, <<class_name, methods[1].key>>, methods[1].value),
             class_name, Tail(methods))

\* methods.iter().for_each(lambda kv: result.insert((class_name, kv.key), ...))
RECURSIVE add_to_result(_, _, _)
add_to_result(result, class_name, methods) ==
    IF Len(methods) = 0 THEN result
    ELSE LET v == methods[1].value
         IN  add_to_result(
                 insert(result, <<class_name, methods[1].key>>,
                        SignatureInfo(class_name, v.method_name, v.params, v.return_type,
                                      v.is_property, v.is_classmethod, v.is_staticmethod)),
                 class_name, Tail(methods))

\* The loop over TARGET_CLASSES, in the order the set is iterated.
RECURSIVE resolve_classes(_, _, _)
resolve_classes(result, order, sigs) ==
    IF Len(order) = 0 THEN result
    ELSE resolve_classes(add_to_result(result, order[1], class_methods(sigs, order[1])),
                         Tail(order), sigs)

_resolve_inheritance(sigs, order) == resolve_classes(<<>>, order, sigs)

---------------------------------------------------------------------------
(* str operations used by _normalize_return_type.                          *)

\* s[i:].startswith(sub), i counted from 1
starts_at(s, sub, i) ==
    /\ i + Len(sub) - 1 <= Len(s)
    /\ \A j \in 1..Len(sub) : s[i + j - 1] = sub[j]

\* sub in s
contains(s, sub) == \E i \in 1..(Len(s) + 1) : starts_at(s, sub, i)

\* s.replace(old, new) for a non-empty old: leftmost, non-overlapping.
RECURSIVE replace(_, _, _)
replace(s, old, new) ==
    IF Len(s) = 0 THEN <<>>
    ELSE IF starts_at(s, old, 1)
         THEN new \o replace(SubSeq(s, Len(old) + 1, Len(s)), old, new)
         ELSE <<s[1]>> \o replace(Tail(s), old, new)

\* Mutant: the name Path is rewritten to Self wherever it stands in the
\* text.
_normalize_return_type_nested(ret_type) ==
    IF ret_type \in {sSelf, sPurePath, sPath, sPosixPath, sWindowsPath}
    THEN sSelf
    ELSE LET normalized == replace(replace(ret_type, sPath, sSelf), sGenerator, sIterator)
         IN  IF contains(normalized, sSequence) \/ contains(normalized, stuple)
             THEN replace(normalized, stuple, sSequence)
             ELSE normalized

_normalize_return_type(ret_type) ==
    IF ret_type \in {sSelf, sPurePath, sPath, sPosixPath, sWindowsPath}
    THEN sSelf
    ELSE LET normalized == replace(ret_type, sGenerator, sIterator)
         IN  IF contains(normalized, sSequence) \/ contains(normalized, stuple)
             THEN replace(normalized, stuple, sSequence)
             ELSE normalized

---------------------------------------------------------------------------
(* _compare_signatures.                                                    *)

\* Mutant: the two sides of a TYPE_MISMATCH are exchanged.
_check_differences_swapped(class_name, method_name, pathlib_sig, pyopath_sig) ==
    IF pathlib_sig.is_property # pyopath_sig.is_property
    THEN Some(Difference(class_name, method_name, "TYPE_MISMATCH",
                         IF pyopath_sig.is_property THEN sproperty ELSE smethod,
                         IF pathlib_sig.is_property THEN sproperty ELSE smethod))
    ELSE IF pathlib_sig.is_property
    THEN NONE
    ELSE IF params_str(pathlib_sig) # params_str(pyopath_sig)
    THEN Some(Difference(class_name, method_name, "SIGNATURE_MISMATCH",
                         full_sig(pathlib_sig), full_sig(pyopath_sig)))
    ELSE IF _normalize_return_type(pathlib_sig.return_type)
            # _normalize_return_type(pyopath_sig.return_type)
    THEN Some(Difference(class_name, method_name, "RETURN_TYPE_MISMATCH",
                         pathlib_sig.return_type, pyopath_sig.return_type))
    ELSE NONE

\* Mutant: two properties are compared like two methods.
_check_differences_props(class_name, method_name, pathlib_sig, pyopath_sig) ==
    IF pathlib_sig.is_property # pyopath_sig.is_property
    THEN Some(Difference(class_name, method_name, "TYPE_MISMATCH",
                         IF pathlib_sig.is_property THEN sproperty ELSE smethod,
                         IF pyopath_sig.is_property THEN sproperty ELSE smethod))
    ELSE IF params_str(pathlib_sig) # params_str(pyopath_sig)
    THEN Some(Difference(class_name, method_name, "SIGNATURE_MISMATCH",
                         full_sig(pathlib_sig), full_sig(pyopath_sig)))
    ELSE IF _normalize_return_type(pathlib_sig.return_type)
            # _normalize_return_type(pyopath_sig.return_type)
    THEN Some(Difference(class_name, method_name, "RETURN_TYPE_MISMATCH",
                         pathlib_sig.return_type, pyopath_sig.return_type))
    ELSE NONE

\* Mutant: a RETURN_TYPE_MISMATCH reports the normalized return types.
_check_differences_normvals(class_name, method_name, pathlib_sig, pyopath_sig) ==
    IF pathlib_sig.is_property # pyopath_sig.is_property
    THEN Some(Difference(class_name, method_name, "TYPE_MISMATCH",
                         IF pathlib_sig.is_property THEN sproperty ELSE smethod,
                         IF pyopath_sig.is_property THEN sproperty ELSE smethod))
    ELSE IF pathlib_sig.is_property
    THEN NONE
    ELSE IF params_str(pathlib_sig) # params_str(pyopath_sig)
    THEN Some(Difference(class_name, method_name, "SIGNATURE_MISMATCH",
                         full_sig(pathlib_sig), full_sig(pyopath_sig)))
    ELSE IF _normalize_return_type(pathlib_sig.return_type)
            # _normalize_return_type(pyopath_sig.return_type)
    THEN Some(Difference(class_name, method_name, "RETURN_TYPE_MISMATCH",
                         _normalize_return_type(pathlib_sig.return_type),
                         _normalize_return_type(pyopath_sig.return_type)))
    ELSE NONE

\* Mutant: the left return type is normalized, the right one is not.
_check_differences_halfnorm(class_name, method_name, pathlib_sig, pyopath_sig) ==
    IF pathlib_sig.is_property # pyopath_sig.is_property
    THEN Some(Difference(class_name, method_name, "TYPE_MISMATCH",
                         IF pathlib_sig.is_property THEN sproperty ELSE smethod,
                         IF pyopath_sig.is_property THEN sproperty ELSE smethod))
    ELSE IF pathlib_sig.is_property
    THEN NONE
    ELSE IF params_str(pathlib_sig) # params_str(pyopath_sig)
    THEN Some(Difference(class_name, method_name, "SIGNATURE_MISMATCH",
                         full_sig(pathlib_sig), full_sig(pyopath_sig)))
    ELSE IF _normalize_return_type(pathlib_sig.return_type) # pyopath_sig.return_type
    THEN Some(Difference(class_name, method_name, "RETURN_TYPE_MISMATCH",
                         pathlib_sig.return_type, pyopath_sig.return_type))
    ELSE NONE

\* Mutant: a classmethod or staticmethod against a member of another kind
\* is a TYPE_MISMATCH.
_check_differences_kinds(class_name, method_name, pathlib_sig, pyopath_sig) ==
    IF \/ pathlib_sig.is_property # pyopath_sig.is_property
       \/ pathlib_sig.is_classmethod # pyopath_sig.is_classmethod
       \/ pathlib_sig.is_staticmethod # pyopath_sig.is_staticmethod
    THEN Some(Difference(class_name, method_name, "TYPE_MISMATCH",
                         IF pathlib_sig.is_property THEN sproperty ELSE smethod,
                         IF pyopath_sig.is_property THEN sproperty ELSE smethod))
    ELSE IF pathlib_sig.is_property
    THEN NONE
    ELSE IF params_str(pathlib_sig) # params_str(pyopath_sig)
    THEN Some(Difference(class_name, method_name, "SIGNATURE_MISMATCH",
                         full_sig(pathlib_sig), full_sig(pyopath_sig)))
    ELSE IF _normalize_return_type(pathlib_sig.return_type)
            # _normalize_return_type(pyopath_sig.return_type)
    THEN Some(Difference(class_name, method_name, "RETURN_TYPE_MISMATCH",
                         pathlib_sig.return_type, pyopath_sig.return_type))
    ELSE NONE

\* Mutant: a left return type that normalizes to Self matches any right
\* return type.
_check_differences_self_left(class_name, method_name, pathlib_sig, pyopath_sig) ==
    IF pathlib_sig.is_property # pyopath_sig.is_property
    THEN Some(Difference(class_name, method_name, "TYPE_MISMATCH",
                         IF pathlib_sig.is_property THEN sproperty ELSE smethod,
                         IF pyopath_sig.is_property THEN sproperty ELSE smethod))
    ELSE IF pathlib_sig.is_property
    THEN NONE
    ELSE IF params_str(pathlib_sig) # params_str(pyopath_sig)
    THEN Some(Difference(class_name, method_name, "SIGNATURE_MISMATCH",
                         full_sig(pathlib_sig), full_sig(pyopath_sig)))
    ELSE IF /\ _normalize_return_type(pathlib_sig.return_type) # sSelf
            /\ _normalize_return_type(pathlib_sig.return_type)
                 # _normalize_return_type(pyopath_sig.return_type)
    THEN Some(Difference(class_name, method_name, "RETURN_TYPE_MISMATCH",
                         pathlib_sig.return_type, pyopath_sig.return_type))
    ELSE NONE

_check_differences(class_name, method_name, pathlib_sig, pyopath_sig) ==
    IF pathlib_sig.is_property # pyopath_sig.is_property
    THEN Some(Difference(class_name, method_name, "TYPE_MISMATCH",
                         IF pathlib_sig.is_property THEN sproperty ELSE smethod,
                         IF pyopath_sig.is_property THEN sproperty ELSE smethod))
    ELSE IF pathlib_sig.is_property
    THEN NONE
    ELSE IF params_str(pathlib_sig) # params_str(pyopath_sig)
    THEN Some(Difference(class_name, method_name, "SIGNATURE_MISMATCH",
                         full_sig(pathlib_sig), full_sig(pyopath_sig)))
    ELSE IF _normalize_return_type(pathlib_sig.return_type)
            # _normalize_return_type(pyopath_sig.return_type)
    THEN Some(Difference(class_name, method_name, "RETURN_TYPE_MISMATCH",
                         pathlib_sig.return_type, pyopath_sig.return_type))
    ELSE NONE

\* Mutant: a MISSING record carries the parameter list without the return
\* type.
_compare_one_params(right, key, pathlib_sig) ==
    LET found == get_item(right, key)
    IN  IF is_some(found)
        THEN _check_differences(key[1], key[2], pathlib_sig, found[1])
        ELSE Some(Difference(key[1], key[2], "MISSING", params_str(pathlib_sig), sNA))

\* The closure _compare_one, with the right table it captures as a parameter.
_compare_one(right, key, pathlib_sig) ==
    LET found == get_item(right, key)
    IN  IF is_some(found)
        THEN _check_differences(key[1], key[2], pathlib_sig, found[1])
        ELSE Some(Difference(key[1], key[2], "MISSING", full_sig(pathlib_sig), sNA))

\* Mutant: the results are collected last key first.
RECURSIVE filter_map_compare_rev(_, _)
filter_map_compare_rev(left, right) ==
    IF Len(left) = 0 THEN <<>>
    ELSE filter_map_compare_rev(Tail(left), right)
         \o _compare_one(right, left[1].key, left[1].value)

\* Iter.filter_map(f).collect(pc.Vec) over the entries of a dict: the Some
\* results, in iteration order.
RECURSIVE filter_map_compare(_, _)
filter_map_compare(left, right) ==
    IF Len(left) = 0 THEN <<>>
    ELSE _compare_one(right, left[1].key, left[1].value)
         \o filter_map_compare(Tail(left), right)

\* Mutant: the keys that only the right table holds are reported as well.
_compare_signatures_both(left, right) ==
    LET only_right(e) == \A i \in DOMAIN left : left[i].key # e.key
        extra == SelectSeq(right, only_right)
    IN  filter_map_compare(left, right)
        \o [i \in DOMAIN extra |->
              Difference(extra[i].key[1], extra[i].key[2], "MISSING",
                         sNA, full_sig(extra[i].value))]

_compare_signatures(left, right) == filter_map_compare(left, right)

---------------------------------------------------------------------------
(* Inputs of the differ: flattened tables over a few keys and member      *)
(* shapes.                                                                 *)

\* The most entries the two tables of one run hold together (a table
\* compared with itself counts once).
MaxEntries == 3

\* How many times _compare_signatures is called on the same two tables.
MaxCalls == 2

DiffKeys ==
    {<<sPurePath, <<"m">>>>, <<sPath, <<"m">>>>, <<sPath, <<"n">>>>}

pX == ParamInfo(<<"x">>, "positional_or_keyword", NONE)

\* What a declaration says besides its class and name.
Shapes ==
    LET shape(ps, rt, prop) ==
            [params |-> ps, return_type |-> rt, is_property |-> prop,
             is_classmethod |-> FALSE, is_staticmethod |-> FALSE]
    IN  { shape(<<>>, <<"s", "t", "r">>, TRUE),
          shape(<<pX>>, <<"b", "y", "t", "e", "s">>, TRUE),
          shape(<<pX>>, sSelf, FALSE),
          shape(<<pX>>, sPath, FALSE),
          shape(<<pX>>, <<"s", "t", "r">>, FALSE),
          shape(<<ParamInfo(<<"x">>, "keyword_only", NONE)>>, <<"s", "t", "r">>, FALSE),
          [shape(<<pX>>, <<"s", "t", "r">>, FALSE) EXCEPT !.is_classmethod = TRUE],
          shape(<<pX,
                  ParamInfo(<<"a">>, "var_positional", NONE),
                  ParamInfo(<<"y">>, "keyword_only", Some(<<"1">>)),
                  ParamInfo(<<"k">>, "var_keyword", NONE)>>,
                <<"s", "t", "r">>, FALSE) }

\* A table entry as _resolve_inheritance stores it: class_name and
\* method_name are those of the key.
Entry(k, sh) ==
    [key |-> k,
     value |-> SignatureInfo(k[1], k[2], sh.params, sh.return_type,
                             sh.is_property, sh.is_classmethod, sh.is_staticmethod)]

RECURSIVE TablesOfLen(_)
TablesOfLen(n) ==
    IF n = 0 THEN {<<>>}
    ELSE UNION { { Append(t, Entry(k, sh)) :
                     k \in {q \in DiffKeys : \A i \in DOMAIN t : t[i].key # q},
                     sh \in Shapes }
                 : t \in TablesOfLen(n - 1) }

TablesByLen(max_entries) == [n \in 0..max_entries |-> TablesOfLen(n)]

---------------------------------------------------------------------------
(* The differ as a state machine: the tables are the inputs, every call of *)
(* _compare_signatures is one step.                                        *)

Init ==
    /\ LET by_len == TablesByLen(MaxEntries)
       IN  \E l \in 0..MaxEntries :
             /\ pathlib_sigs \in by_len[l]
             /\ \/ \E r \in 0..(MaxEntries - l) : pyopath_sigs \in by_len[r]
                \/ pyopath_sigs = pathlib_sigs
    /\ diffs = <<>>
    /\ prev_diffs = <<>>
    /\ calls = 0
    /\ class_sigs = <<>>
    /\ visit_order = <<>>
    /\ resolved = <<>>
    /\ resolve_done = FALSE
    /\ parser_idle
    /\ member_idle

Compare ==
    /\ calls < MaxCalls
    /\ diffs' = _compare_signatures(pathlib_sigs, pyopath_sigs)
    /\ prev_diffs' = diffs
    /\ calls' = calls + 1
    /\ UNCHANGED <<pathlib_sigs, pyopath_sigs>>
    /\ UNCHANGED resolver_vars
    /\ UNCHANGED parser_vars
    /\ UNCHANGED member_vars

Next == Compare

Spec == Init /\ [][Next]_vars

---------------------------------------------------------------------------
(* What the claims about the differ speak of.                              *)

Called == calls >= 1

\* The positions of the Differences recorded for key k.
RecsFor(k) ==
    {j \in DOMAIN diffs : diffs[j].class_name = k[1] /\ diffs[j].method_name = k[2]}

RecsWith(k, issue) == {j \in RecsFor(k) : diffs[j].issue = issue}

InLeft(k) == \E i \in DOMAIN pathlib_sigs : pathlib_sigs[i].key = k

InRight(k) == \E i \in DOMAIN pyopath_sigs : pyopath_sigs[i].key = k

LeftSig(k) == pathlib_sigs[CHOOSE i \in DOMAIN pathlib_sigs : pathlib_sigs[i].key = k].value

RightSig(k) == pyopath_sigs[CHOOSE i \in DOMAIN pyopath_sigs : pyopath_sigs[i].key = k].value

CommonKeys == {k \in DiffKeys : InLeft(k) /\ InRight(k)}

\* The parameter-list text as the specification words it: '*' before a
\* var-positional, '**' before a var-keyword, the name, '=default' when the
\* parameter has a default, the parameters joined by ", ".
RECURSIVE StatedParams(_)
StatedParams(ps) ==
    IF ps = <<>> THEN <<>>
    ELSE LET p == ps[1]
             one == (CASE p.kind = "var_positional" -> <<"*">>
                       [] p.kind = "var_keyword" -> <<"*", "*">>
                       [] OTHER -> <<>>)
                    \o p.name
                    \o (IF p.has_default THEN <<"=">> \o p.default_repr[1] ELSE <<>>)
         IN  IF Len(ps) = 1 THEN one ELSE one \o <<",", " ">> \o StatedParams(Tail(ps))

\* "(params) -> returnType" with the declared return type.
StatedFull(sig) ==
    <<"(">> \o StatedParams(sig.params) \o <<")", " ", "-", ">", " ">> \o sig.return_type

\* C1: every left key absent from the right table has exactly one record, a
\* MISSING one whose left value is the left signature's "(params) ->
\* returnType" and whose right value is "N/A"; no MISSING record names a key
\* of the right table.
C1_MissingForAbsentKeys ==
    Called =>
      /\ \A i \in DOMAIN pathlib_sigs :
           LET k == pathlib_sigs[i].key
           IN  IF InRight(k)
               THEN RecsWith(k, "MISSING") = {}
               ELSE /\ Cardinality(RecsFor(k)) = 1
                    /\ \A j \in RecsFor(k) :
                         /\ diffs[j].issue = "MISSING"
                         /\ diffs[j].pathlib_val = StatedFull(pathlib_sigs[i].value)
                         /\ diffs[j].pyopath_val = sNA
      /\ \A j \in DOMAIN diffs :
           diffs[j].issue = "MISSING"
             => ~InRight(<<diffs[j].class_name, diffs[j].method_name>>)

\* A left key is missing on the right while another left key is present there,
\* and the call has returned.
C1_Witness ==
    /\ Called
    /\ \E k \in DiffKeys : InLeft(k) /\ ~InRight(k) /\ RecsWith(k, "MISSING") # {}
    /\ CommonKeys # {}
    /\ \E k \in DiffKeys : InLeft(k) /\ ~InRight(k) /\ LeftSig(k).params # <<>>

\* C2: a key of both tables whose is_property flags differ has exactly one
\* record, a TYPE_MISMATCH one, each value "property" or "method" after that
\* side's flag, whatever the parameters and return types are.
C2_TypeMismatch ==
    Called =>
      \A k \in CommonKeys :
        LeftSig(k).is_property # RightSig(k).is_property =>
          /\ Cardinality(RecsFor(k)) = 1
          /\ \A j \in RecsFor(k) :
               /\ diffs[j].issue = "TYPE_MISMATCH"
               /\ diffs[j].pathlib_val = (IF LeftSig(k).is_property THEN sproperty ELSE smethod)
               /\ diffs[j].pyopath_val = (IF RightSig(k).is_property THEN sproperty ELSE smethod)

\* A property on the left against a method on the right, with different
\* parameters and return types as well.
C2_Witness ==
    /\ Called
    /\ \E k \in CommonKeys :
         /\ LeftSig(k).is_property /\ ~RightSig(k).is_property
         /\ LeftSig(k).params # RightSig(k).params
         /\ LeftSig(k).return_type # RightSig(k).return_type
         /\ RecsWith(k, "TYPE_MISMATCH") # {}

\* C3: a key of both tables that is a property on both sides has no record,
\* whatever the two parameter lists and return types are.
C3_PropertiesNotCompared ==
    Called =>
      \A k \in CommonKeys :
        LeftSig(k).is_property /\ RightSig(k).is_property => RecsFor(k) = {}

\* Two properties whose parameters differ and whose normalized return types
\* differ.
C3_Witness ==
    /\ Called
    /\ \E k \in CommonKeys :
         /\ LeftSig(k).is_property /\ RightSig(k).is_property
         /\ StatedParams(LeftSig(k).params) # StatedParams(RightSig(k).params)
         /\ _normalize_return_type(LeftSig(k).return_type)
              # _normalize_return_type(RightSig(k).return_type)

\* C4: for a key of both tables that is a property on neither side, a
\* SIGNATURE_MISMATCH record exists iff the two parameter-list texts differ,
\* and its values are the two "(params) -> returnType" texts with the declared
\* return types.
C4_SignatureMismatch ==
    Called =>
      \A k \in CommonKeys :
        ~LeftSig(k).is_property /\ ~RightSig(k).is_property =>
          /\ RecsWith(k, "SIGNATURE_MISMATCH") # {}
               <=> StatedParams(LeftSig(k).params) # StatedParams(RightSig(k).params)
          /\ \A j \in RecsWith(k, "SIGNATURE_MISMATCH") :
               /\ diffs[j].pathlib_val = StatedFull(LeftSig(k))
               /\ diffs[j].pyopath_val = StatedFull(RightSig(k))

\* A SIGNATURE_MISMATCH whose left return type is one the normalizer would
\* rewrite, against a parameter list with '*', '**' and a default.
C4_Witness ==
    /\ Called
    /\ \E k \in CommonKeys :
         /\ RecsWith(k, "SIGNATURE_MISMATCH") # {}
         /\ LeftSig(k).return_type = sPath
         /\ \E i \in DOMAIN RightSig(k).params : RightSig(k).params[i].kind = "var_keyword"
         /\ \E i \in DOMAIN RightSig(k).params : RightSig(k).params[i].kind = "var_positional"
         /\ \E i \in DOMAIN RightSig(k).params : RightSig(k).params[i].has_default

\* C5: for a key of both tables that is a property on neither side and whose
\* parameter-list texts are equal, a RETURN_TYPE_MISMATCH record exists iff
\* the normalized return types differ, and its values are the declared return
\* types.
C5_ReturnTypeMismatch ==
    Called =>
      \A k \in CommonKeys :
        /\ ~LeftSig(k).is_property /\ ~RightSig(k).is_property
        /\ StatedParams(LeftSig(k).params) = StatedParams(RightSig(k).params)
        =>
          /\ RecsWith(k, "RETURN_TYPE_MISMATCH") # {}
               <=> _normalize_return_type(LeftSig(k).return_type)
                     # _normalize_return_type(RightSig(k).return_type)
          /\ \A j \in RecsWith(k, "RETURN_TYPE_MISMATCH") :
               /\ diffs[j].pathlib_val = LeftSig(k).return_type
               /\ diffs[j].pyopath_val = RightSig(k).return_type

\* A RETURN_TYPE_MISMATCH whose left value is a declared type that differs
\* from its normalized form.
C5_Witness ==
    /\ Called
    /\ \E k \in CommonKeys :
         /\ RecsWith(k, "RETURN_TYPE_MISMATCH") # {}
         /\ LeftSig(k).return_type # _normalize_return_type(LeftSig(k).return_type)

\* Where key k stands in the left table's iteration order.
LeftPos(k) == CHOOSE i \in DOMAIN pathlib_sigs : pathlib_sigs[i].key = k

DiffKey(j) == <<diffs[j].class_name, diffs[j].method_name>>

\* The first rule of the decision tree that applies to left key k, "NONE" when
\* none does.
FirstRule(k) ==
    IF ~InRight(k) THEN "MISSING"
    ELSE IF LeftSig(k).is_property # RightSig(k).is_property THEN "TYPE_MISMATCH"
    ELSE IF LeftSig(k).is_property THEN "NONE"
    ELSE IF StatedParams(LeftSig(k).params) # StatedParams(RightSig(k).params)
         THEN "SIGNATURE_MISMATCH"
    ELSE IF _normalize_return_type(LeftSig(k).return_type)
              # _normalize_return_type(RightSig(k).return_type)
         THEN "RETURN_TYPE_MISMATCH"
    ELSE "NONE"

\* C6: the records' keys are a subsequence of the left table's keys: every
\* record names a left key, a left key has at most one record, that of the
\* first rule that applies to it, the records stand in left-key order, and a
\* second call on the same tables returns the same sequence.
C6_LeftKeyOrder ==
    Called =>
      /\ \A j \in DOMAIN diffs : InLeft(DiffKey(j))
      /\ \A i \in DOMAIN pathlib_sigs :
           LET k == pathlib_sigs[i].key
           IN  IF FirstRule(k) = "NONE"
               THEN RecsFor(k) = {}
               ELSE /\ Cardinality(RecsFor(k)) = 1
                    /\ \A j \in RecsFor(k) : diffs[j].issue = FirstRule(k)
      /\ \A j1, j2 \in DOMAIN diffs :
           j1 < j2 => LeftPos(DiffKey(j1)) < LeftPos(DiffKey(j2))
      /\ calls >= 2 => diffs = prev_diffs

\* Two records of different rules, the second one MISSING, returned by a
\* second call.
C6_Witness ==
    /\ calls >= 2
    /\ Len(diffs) = 2
    /\ diffs[1].issue \in {"TYPE_MISMATCH", "SIGNATURE_MISMATCH", "RETURN_TYPE_MISMATCH"}
    /\ diffs[2].issue = "MISSING"
    /\ LeftPos(DiffKey(1)) < LeftPos(DiffKey(2))

\* The right table without the keys the left table does not hold.
RightOnLeftKeys ==
    LET in_left(e) == InLeft(e.key)
    IN  SelectSeq(pyopath_sigs, in_left)

\* C7: every record names a key of the left table, and the output is the one
\* the call returns when the right table's right-only keys are taken away.
C7_RightOnlyKeysIgnored ==
    Called =>
      /\ \A j \in DOMAIN diffs : InLeft(DiffKey(j))
      /\ diffs = _compare_signatures(pathlib_sigs, RightOnLeftKeys)

\* The right table holds a key the left table lacks, next to a left key that
\* is reported.
C7_Witness ==
    /\ Called
    /\ \E k \in DiffKeys : InRight(k) /\ ~InLeft(k)
    /\ diffs # <<>>

\* C8: a table compared with itself yields no record.
C8_Reflexive ==
    Called /\ pyopath_sigs = pathlib_sigs => diffs = <<>>

\* A table of three members compared with itself: a property, and a method
\* whose return type the normalizer rewrites.
C8_Witness ==
    /\ Called
    /\ pyopath_sigs = pathlib_sigs
    /\ Len(pathlib_sigs) = 3
    /\ \E i \in DOMAIN pathlib_sigs : pathlib_sigs[i].value.is_property
    /\ \E i \in DOMAIN pathlib_sigs :
         /\ ~pathlib_sigs[i].value.is_property
         /\ pathlib_sigs[i].value.return_type = sPath

---------------------------------------------------------------------------
(* Inputs of the resolver: parsed per-class tables over two member names   *)
(* and two member shapes, and iteration orders of the set TARGET_CLASSES.  *)

\* The most member declarations the parsed file holds.
MaxDecls == 3

ResolveMembers == {<<"m">>, <<"n">>}

ResolveShapes ==
    { [params |-> <<>>, return_type |-> <<"s", "t", "r">>,
       is_property |-> TRUE, is_classmethod |-> FALSE, is_staticmethod |-> FALSE],
      [params |-> <<pX>>, return_type |-> sSelf,
       is_property |-> FALSE, is_classmethod |-> TRUE, is_staticmethod |-> FALSE] }

\* A signature as _extract_function_signature builds it for member m of
\* class c.
Declared(c, m, sh) ==
    SignatureInfo(c, m, sh.params, sh.return_type,
                  sh.is_property, sh.is_classmethod, sh.is_staticmethod)

\* The tables of class c with n members.
RECURSIVE OwnTables(_, _)
OwnTables(c, n) ==
    IF n = 0 THEN {<<>>}
    ELSE UNION { { Append(t, [key |-> m, value |-> Declared(c, m, sh)]) :
                     m \in {q \in ResolveMembers : \A i \in DOMAIN t : t[i].key # q},
                     sh \in ResolveShapes }
                 : t \in OwnTables(c, n - 1) }

\* The parsed tables of a file that declares the classes of cs, in this order,
\* with at most budget members together; a class without member has no table.
RECURSIVE ClassSigs(_, _)
ClassSigs(cs, budget) ==
    IF Len(cs) = 0 THEN {<<>>}
    ELSE UNION { { (IF n = 0 THEN <<>> ELSE <<[key |-> cs[1], value |-> t]>>) \o rest :
                     t \in OwnTables(cs[1], n),
                     rest \in ClassSigs(Tail(cs), budget - n) }
                 : n \in 0..(IF budget < Cardinality(ResolveMembers)
                             THEN budget ELSE Cardinality(ResolveMembers)) }

DeclaredOrder == keys(CLASS_HIERARCHY)

\* Iteration orders of the six-element set: the declared order, its reverse,
\* and two orders that mix base and derived classes.
TargetOrders ==
    { DeclaredOrder,
      rev(DeclaredOrder),
      <<sPosixPath, sPurePath, sWindowsPath, sPath, sPureWindowsPath, sPurePosixPath>>,
      <<sPath, sWindowsPath, sPurePosixPath, sPurePath, sPosixPath, sPureWindowsPath>> }

---------------------------------------------------------------------------
(* The resolver as a state machine: one call of _resolve_inheritance.      *)

InitResolve ==
    /\ class_sigs \in ClassSigs(DeclaredOrder, MaxDecls)
    /\ visit_order \in TargetOrders
    /\ resolved = <<>>
    /\ resolve_done = FALSE
    /\ pathlib_sigs = <<>>
    /\ pyopath_sigs = <<>>
    /\ diffs = <<>>
    /\ prev_diffs = <<>>
    /\ calls = 0
    /\ parser_idle
    /\ member_idle

Resolve ==
    /\ ~resolve_done
    /\ resolved' = _resolve_inheritance(class_sigs, visit_order)
    /\ resolve_done' = TRUE
    /\ UNCHANGED <<class_sigs, visit_order>>
    /\ UNCHANGED differ_vars
    /\ UNCHANGED parser_vars
    /\ UNCHANGED member_vars

NextResolve == Resolve

SpecResolve == InitResolve /\ [][NextResolve]_vars

---------------------------------------------------------------------------
(* What the claims about the resolver speak of.                            *)

\* Whether class c has a table of its own that declares member m.
Declares(c, m) ==
    /\ is_some(get_item(class_sigs, c))
    /\ is_some(get_item(get_item(class_sigs, c)[1], m))

\* The signature class c declares for member m.
OwnSig(c, m) == get_item(get_item(class_sigs, c)[1], m)[1]

\* The ancestors hierarchy-map lists for class c.
ListedAncestors(c) ==
    CLASS_HIERARCHY[CHOOSE i \in DOMAIN CLASS_HIERARCHY : CLASS_HIERARCHY[i].key = c].value

\* Whether the two signatures agree on params, return type and the flags.
SameDeclaration(a, b) ==
    /\ a.params = b.params
    /\ a.return_type = b.return_type
    /\ a.is_property = b.is_property
    /\ a.is_classmethod = b.is_classmethod
    /\ a.is_staticmethod = b.is_staticmethod

\* C9: when a target class declares member m itself, the resolved entry (C, m)
\* carries the class's own declaration, whatever its ancestors declare.
C9_OwnDeclarationWins ==
    resolve_done =>
      \A c \in TARGET_CLASSES : \A m \in ResolveMembers :
        Declares(c, m) =>
          /\ is_some(get_item(resolved, <<c, m>>))
          /\ SameDeclaration(get_item(resolved, <<c, m>>)[1], OwnSig(c, m))

\* A class declares m, and so do two of its listed ancestors, both with another
\* shape.
C9_Witness ==
    /\ resolve_done
    /\ \E c \in TARGET_CLASSES : \E m \in ResolveMembers :
         /\ Declares(c, m)
         /\ \E i, j \in DOMAIN ListedAncestors(c) :
              /\ i # j
              /\ Declares(ListedAncestors(c)[i], m)
              /\ Declares(ListedAncestors(c)[j], m)
              /\ ~SameDeclaration(OwnSig(ListedAncestors(c)[i], m), OwnSig(c, m))
              /\ ~SameDeclaration(OwnSig(ListedAncestors(c)[j], m), OwnSig(c, m))

\* The positions in c's ancestor list of the ancestors whose own table
\* declares m.
DeclaringAncestors(c, m) ==
    {i \in DOMAIN ListedAncestors(c) : Declares(ListedAncestors(c)[i], m)}

\* C10: when a target class does not declare m and some of its listed
\* ancestors declare m in their own tables, the resolved entry (C, m) carries
\* the declaration of the earliest-listed of these ancestors.
C10_EarliestListedAncestorWins ==
    resolve_done =>
      \A c \in TARGET_CLASSES : \A m \in ResolveMembers :
        ~Declares(c, m) /\ DeclaringAncestors(c, m) # {} =>
          LET first == CHOOSE i \in DeclaringAncestors(c, m) :
                         \A j \in DeclaringAncestors(c, m) : i <= j
          IN  /\ is_some(get_item(resolved, <<c, m>>))
              /\ SameDeclaration(get_item(resolved, <<c, m>>)[1],
                                 OwnSig(ListedAncestors(c)[first], m))

\* PosixPath does not declare m; its first-listed ancestor Path has a table
\* without m, while PurePosixPath and PurePath declare m with different
\* shapes: Path's flattened table would hold PurePath's m.
C10_Witness ==
    /\ resolve_done
    /\ \E m \in ResolveMembers :
         /\ ~Declares(sPosixPath, m)
         /\ is_some(get_item(class_sigs, sPath))
         /\ ~Declares(sPath, m)
         /\ Declares(sPurePosixPath, m)
         /\ Declares(sPurePath, m)
         /\ ~SameDeclaration(OwnSig(sPurePosixPath, m), OwnSig(sPurePath, m))
         /\ SameDeclaration(get_item(resolved, <<sPosixPath, m>>)[1],
                            OwnSig(sPurePosixPath, m))

\* The declaration that wins for member m of class c: the class's own, else
\* that of the earliest-listed ancestor whose own table declares m.
WinningSig(c, m) ==
    IF Declares(c, m) THEN OwnSig(c, m)
    ELSE LET first == CHOOSE i \in DeclaringAncestors(c, m) :
                        \A j \in DeclaringAncestors(c, m) : i <= j
         IN  OwnSig(ListedAncestors(c)[first], m)

\* C11: every entry stored under (C, m) has class_name C and method_name m,
\* also when it is inherited, and its params, return type and flags are those
\* of the winning declaration.
C11_EntryNamedAfterKey ==
    resolve_done =>
      \A i \in DOMAIN resolved :
        LET c == resolved[i].key[1]
            m == resolved[i].key[2]
            v == resolved[i].value
        IN  /\ v.class_name = c
            /\ v.method_name = m
            /\ Declares(c, m) \/ DeclaringAncestors(c, m) # {}
            /\ SameDeclaration(v, WinningSig(c, m))

\* An entry that a class inherits from an ancestor: the winning declaration
\* carries the ancestor's class name.
C11_Witness ==
    /\ resolve_done
    /\ \E i \in DOMAIN resolved :
         /\ ~Declares(resolved[i].key[1], resolved[i].key[2])
         /\ WinningSig(resolved[i].key[1], resolved[i].key[2]).class_name
              # resolved[i].key[1]
         /\ resolved[i].value.class_name = resolved[i].key[1]

\* The members the resolved table holds for class c, in table order.
ResolvedMembers(c) ==
    LET of_c(e) == e.key[1] = c
        es == SelectSeq(resolved, of_c)
    IN  [i \in DOMAIN es |-> [key |-> es[i].key[2], value |-> es[i].value]]

\* C12: a listed ancestor without table contributes nothing: the members
\* resolved for a class are those its own table or the table of a listed
\* ancestor declares; a class without listed ancestors (PurePath) resolves to
\* its own table, member for member.
C12_MissingAncestorContributesNothing ==
    resolve_done =>
      /\ \A c \in TARGET_CLASSES : \A m \in ResolveMembers :
           is_some(get_item(resolved, <<c, m>>))
             <=> (Declares(c, m) \/ DeclaringAncestors(c, m) # {})
      /\ \A c \in TARGET_CLASSES :
           ListedAncestors(c) = <<>> =>
             ResolvedMembers(c) = unwrap_or(get_item(class_sigs, c), <<>>)

\* A class one of whose listed ancestors has no table, listed before an
\* ancestor that has one and whose member the class inherits; and PurePath
\* with a table of its own.
C12_Witness ==
    /\ resolve_done
    /\ is_some(get_item(class_sigs, sPurePath))
    /\ \E c \in TARGET_CLASSES : \E m \in ResolveMembers :
         \E i, j \in DOMAIN ListedAncestors(c) :
           /\ i < j
           /\ ~is_some(get_item(class_sigs, ListedAncestors(c)[i]))
           /\ Declares(ListedAncestors(c)[j], m)
           /\ ~Declares(c, m)
           /\ is_some(get_item(resolved, <<c, m>>))

---------------------------------------------------------------------------
(* Inputs of the extraction: function definitions a stub file can hold.    *)
(* The parameter names of one definition are distinct, as Python requires, *)
(* there are never more defaults than positional parameters, and there is  *)
(* one keyword default, possibly absent, per keyword-only parameter.       *)

\* The most positional-only parameters of a definition.
MaxPosOnly == 1

\* The most regular parameters of a definition.
MaxArgs == 3

\* The most decorators of a definition.
MaxDecorators == 2

PosOnlyNames == {sself, <<"p">>}

ArgNames == {sself, scls, <<"a">>}

Range(q) == {q[i] : i \in DOMAIN q}

\* The sequences of at most n distinct elements of S.
RECURSIVE DistinctSeqs(_, _)
DistinctSeqs(S, n) ==
    IF n = 0 THEN {<<>>}
    ELSE LET shorter == DistinctSeqs(S, n - 1)
         IN  shorter \cup UNION {{Append(q, x) : x \in S \ Range(q)} : q \in shorter}

\* The sequences of at most n elements of S.
RECURSIVE SeqsUpTo(_, _)
SeqsUpTo(S, n) ==
    IF n = 0 THEN {<<>>}
    ELSE LET shorter == SeqsUpTo(S, n - 1)
         IN  shorter \cup {Append(q, x) : q \in shorter, x \in S}

\* The sequences of exactly n elements of S.
RECURSIVE SeqsOfLen(_, _)
SeqsOfLen(S, n) ==
    IF n = 0 THEN {<<>>}
    ELSE {Append(q, x) : q \in SeqsOfLen(S, n - 1), x \in S}

Digits == <<"1", "2", "3", "4", "5", "6", "7", "8", "9">>

\* The j-th default expression of a definition: None, 's', then 3, 4, ...
DefaultExpr(j) ==
    IF j = 1 THEN Constant(sNone, FALSE)
    ELSE IF j = 2 THEN Constant(<<"s">>, TRUE)
    ELSE Constant(<<Digits[j]>>, FALSE)

\* The positional part of an argument list: names and number of defaults.
PositionalParts(max_posonly, max_args) ==
    UNION {UNION {{[posonlyargs |-> po, args |-> ar, num_defaults |-> d]
                     : d \in 0..(Len(po) + Len(ar))}
                  : ar \in DistinctSeqs(ArgNames \ Range(po), max_args)}
           : po \in DistinctSeqs(PosOnlyNames, max_posonly)}

\* What follows the positional part: (), (*v), (*, k), (*, k=1), (**w),
\* (*v, k=1, j, **w).
RestParts ==
    {[vararg |-> NONE, kwonlyargs |-> <<>>, kw_defaults |-> <<>>, kwarg |-> NONE],
     [vararg |-> Some(<<"v">>), kwonlyargs |-> <<>>, kw_defaults |-> <<>>, kwarg |-> NONE],
     [vararg |-> NONE, kwonlyargs |-> <<<<"k">>>>, kw_defaults |-> <<NONE>>, kwarg |-> NONE],
     [vararg |-> NONE, kwonlyargs |-> <<<<"k">>>>,
      kw_defaults |-> <<Some(Constant(<<"1">>, FALSE))>>, kwarg |-> NONE],
     [vararg |-> NONE, kwonlyargs |-> <<>>, kw_defaults |-> <<>>, kwarg |-> Some(<<"w">>)],
     [vararg |-> Some(<<"v">>), kwonlyargs |-> <<<<"k">>, <<"j">>>>,
      kw_defaults |-> <<Some(Constant(<<"1">>, FALSE)), NONE>>, kwarg |-> Some(<<"w">>)]}

args_of(q) == [i \in DOMAIN q |-> ast_arg(q[i])]

Arguments(pp, rp) ==
    ast_arguments(args_of(pp.posonlyargs), args_of(pp.args),
                  IF is_some(rp.vararg) THEN Some(ast_arg(rp.vararg[1])) ELSE NONE,
                  args_of(rp.kwonlyargs), rp.kw_defaults,
                  IF is_some(rp.kwarg) THEN Some(ast_arg(rp.kwarg[1])) ELSE NONE,
                  [j \in 1..pp.num_defaults |-> DefaultExpr(j)])

\* @property, @classmethod, @staticmethod and @t.property
DecoratorNodes ==
    {Name(sproperty), Name(sclassmethod), Name(sstaticmethod),
     Attribute(Name(<<"t">>), sproperty)}

\* No annotation, Self, and  t.Iterator[str, 'x'] | [-1]
ReturnNodes ==
    {NONE, Some(Name(sSelf)),
     Some(BitOrNode(Subscript(Attribute(Name(<<"t">>), sIterator),
                              TupleNode(<<Name(<<"s", "t", "r">>), Constant(<<"x">>, TRUE)>>)),
                    ListNode(<<OtherNode(<<"-", "1">>)>>)))}

---------------------------------------------------------------------------
(* The extraction as a state machine: _process_class looks at one function *)
(* definition of class Path and stores its signature.                      *)

InitExtract ==
    /\ \E pp \in PositionalParts(MaxPosOnly, MaxArgs), rp \in RestParts,
          ds \in SeqsUpTo(DecoratorNodes, MaxDecorators), r \in ReturnNodes :
            item = Some(FunctionDef(<<"m">>, Arguments(pp, rp), ds, r))
    /\ extracted = NONE
    /\ member_name = <<>>
    /\ included = <<>>
    /\ tree = <<>>
    /\ parsed = <<>>
    /\ parse_done = FALSE
    /\ tables_idle
    /\ member_idle

Extract ==
    /\ is_some(item)
    /\ ~is_some(extracted)
    /\ extracted' = Some(item_signature(sPath, item[1]))
    /\ UNCHANGED <<item, member_name, included, tree, parsed, parse_done>>
    /\ UNCHANGED <<resolver_vars, differ_vars>>
    /\ UNCHANGED member_vars

NextExtract == Extract

SpecExtract == InitExtract /\ [][NextExtract]_vars

---------------------------------------------------------------------------
(* What the claims about the extraction speak of.                          *)

Extracted == is_some(extracted)

\* The declared positional parameter names, positional-only first.
DeclaredPositional == item[1].args.posonlyargs \o item[1].args.args

\* The reported parameters that are positional.
ReportedPositional ==
    LET positional(q) == q.kind \in {"positional_only", "positional_or_keyword"}
    IN  SelectSeq(extracted[1].params, positional)

\* The 0-based index at which parameter name nm is declared, -1 when it is not.
DeclaredIndex(nm) ==
    IF \E i \in DOMAIN DeclaredPositional : DeclaredPositional[i].arg = nm
    THEN (CHOOSE i \in DOMAIN DeclaredPositional : DeclaredPositional[i].arg = nm) - 1
    ELSE -1

\* The text a default is reported with, written out for the j-th default.
StatedDefaultText(j) ==
    IF j = 1 THEN sNone
    ELSE IF j = 2 THEN <<"'", "s", "'">>
    ELSE <<Digits[j]>>

\* C13: with P positional parameters and D defaults, the parameter declared
\* at 0-based index i (the receiver counted) is reported with a default iff
\* i >= P - D, the default text renders defaults[i - (P - D)], the reported
\* positional parameters keep declaration order, and every positional
\* parameter not named self or cls is reported.
C13_DefaultAlignment ==
    Extracted =>
      LET P == Len(DeclaredPositional)
          D == Len(item[1].args.defaults)
          rep == ReportedPositional
      IN  /\ \A j \in DOMAIN rep :
                LET i == DeclaredIndex(rep[j].name)
                IN  /\ i >= 0
                    /\ rep[j].has_default <=> i >= P - D
                    /\ rep[j].default_repr =
                         IF i >= P - D THEN Some(StatedDefaultText(i - (P - D) + 1))
                         ELSE NONE
          /\ \A j1, j2 \in DOMAIN rep :
                j1 < j2 => DeclaredIndex(rep[j1].name) < DeclaredIndex(rep[j2].name)
          /\ \A i \in DOMAIN DeclaredPositional :
                DeclaredPositional[i].arg \notin {sself, scls} =>
                  \E j \in DOMAIN rep : rep[j].name = DeclaredPositional[i].arg

\* f(p, /, self, a=None): the receiver is dropped and only a has a default.
C13_Witness ==
    /\ Extracted
    /\ item[1].args.posonlyargs = <<ast_arg(<<"p">>)>>
    /\ item[1].args.args = <<ast_arg(sself), ast_arg(<<"a">>)>>
    /\ Len(item[1].args.defaults) = 1
    /\ Len(ReportedPositional) = 2
    /\ ~ReportedPositional[1].has_default
    /\ ReportedPositional[2].name = <<"a">>
    /\ ReportedPositional[2].default_repr = Some(sNone)

names_of(q) == [i \in DOMAIN q |-> q[i].arg]

\* The names of q without the first one that is self or cls.
RECURSIVE WithoutFirstReceiver(_)
WithoutFirstReceiver(q) ==
    IF q = <<>> THEN <<>>
    ELSE IF Head(q) \in {sself, scls} THEN Tail(q)
    ELSE <<Head(q)>> \o WithoutFirstReceiver(Tail(q))

\* The parameter names the extraction is stated to report for item.
StatedParamNames ==
    LET a == item[1].args
    IN  names_of(a.posonlyargs)
        \o WithoutFirstReceiver(names_of(a.args))
        \o (IF is_some(a.vararg) THEN <<a.vararg[1].arg>> ELSE <<>>)
        \o names_of(a.kwonlyargs)
        \o (IF is_some(a.kwarg) THEN <<a.kwarg[1].arg>> ELSE <<>>)

ReportedParamNames == [i \in DOMAIN extracted[1].params |-> extracted[1].params[i].name]

\* C14: only the first regular parameter named self or cls is dropped from
\* the reported params; every other declared parameter is reported, a later
\* regular self or cls and a positional-only self or cls included.
C14_OnlyFirstReceiverDropped ==
    Extracted => ReportedParamNames = StatedParamNames

\* f(self, cls) has been extracted and its params are empty.
C14_Witness ==
    /\ Extracted
    /\ item[1].args.posonlyargs = <<>>
    /\ names_of(item[1].args.args) = <<sself, scls>>
    /\ ~is_some(item[1].args.vararg)
    /\ item[1].args.kwonlyargs = <<>>
    /\ ~is_some(item[1].args.kwarg)
    /\ extracted[1].params = <<>>

\* C16: a SignatureInfo with is_property true has no params, whatever
\* parameters the declaration lists besides the receiver.
C16_PropertyHasNoParams ==
    Extracted => (extracted[1].is_property => extracted[1].params = <<>>)

\* @property def m(self, a) has been extracted with params (a).
C16_Witness ==
    /\ Extracted
    /\ item[1].decorator_list = <<Name(sproperty)>>
    /\ item[1].args.posonlyargs = <<>>
    /\ names_of(item[1].args.args) = <<sself, <<"a">>>>
    /\ extracted[1].is_property
    /\ ReportedParamNames = <<<<"a">>>>

\* C20: a SignatureInfo is never flagged both as a property and as a
\* classmethod or staticmethod, whatever decorators the declaration carries.
C20_PropertyExcludesClassAndStatic ==
    Extracted =>
      (extracted[1].is_property =>
         ~extracted[1].is_classmethod /\ ~extracted[1].is_staticmethod)

\* @classmethod @property def m(cls) has been extracted with both flags set.
C20_Witness ==
    /\ Extracted
    /\ item[1].decorator_list = <<Name(sclassmethod), Name(sproperty)>>
    /\ names_of(item[1].args.args) = <<scls>>
    /\ extracted[1].is_property
    /\ extracted[1].is_classmethod

---------------------------------------------------------------------------
(* The member filter as a state machine: _should_include_method is called  *)
(* once on a member name.  The names are the non-empty words over '_' and  *)
(* 'x' up to a length, the allow-listed names and __init__.                *)

\* The longest name over '_' and 'x'.
MaxNameLen == 5

s__init__ == <<"_", "_", "i", "n", "i", "t", "_", "_">>

MemberNames ==
    (SeqsUpTo({"_", "x"}, MaxNameLen) \ {<<>>})
    \cup {s__fspath__, s__truediv__, s__rtruediv__, s__init__}

InitInclude ==
    /\ member_name \in MemberNames
    /\ included = NONE
    /\ item = <<>>
    /\ extracted = <<>>
    /\ tree = <<>>
    /\ parsed = <<>>
    /\ parse_done = FALSE
    /\ tables_idle
    /\ member_idle

Include ==
    /\ member_name # <<>>
    /\ ~is_some(included)
    /\ included' = Some(_should_include_method(member_name))
    /\ UNCHANGED <<item, extracted, member_name, tree, parsed, parse_done>>
    /\ UNCHANGED <<resolver_vars, differ_vars>>
    /\ UNCHANGED member_vars

NextInclude == Include

SpecInclude == InitInclude /\ [][NextInclude]_vars

---------------------------------------------------------------------------
(* What the claims about the member filter speak of.                       *)

\* The name starts with one underscore, not with two.
SingleLeadingUnderscore(n) == n[1] = "_" /\ (Len(n) >= 2 => n[2] # "_")

LeadingDunder(n) == Len(n) >= 2 /\ n[1] = "_" /\ n[2] = "_"

TrailingDunder(n) == Len(n) >= 2 /\ n[Len(n)] = "_" /\ n[Len(n) - 1] = "_"

AllowList ==
    {<<"_", "_", "f", "s", "p", "a", "t", "h", "_", "_">>,
     <<"_", "_", "t", "r", "u", "e", "d", "i", "v", "_", "_">>,
     <<"_", "_", "r", "t", "r", "u", "e", "d", "i", "v", "_", "_">>}

ExcludedDunder(n) == LeadingDunder(n) /\ TrailingDunder(n) /\ n \notin AllowList

\* C15 as stated: a name is excluded exactly when it has a single leading
\* underscore and no trailing double underscore, or is a dunder outside the
\* allow-list; every other name, _x__ and __x in particular, is included.
C15_ExcludedAsStated ==
    is_some(included) =>
      (included[1] = FALSE
         <=> \/ SingleLeadingUnderscore(member_name) /\ ~TrailingDunder(member_name)
             \/ ExcludedDunder(member_name))

\* C15 amended: a name is excluded exactly when it starts with a single
\* underscore, whatever it ends with, or starts and ends with a double
\* underscore and is outside the allow-list; every other name, __x in
\* particular, is included.
C15_ExcludedBySingleLeadingUnderscore ==
    is_some(included) =>
      (included[1] = FALSE
         <=> \/ SingleLeadingUnderscore(member_name)
             \/ ExcludedDunder(member_name))

\* _x__ has been excluded.
C15_Witness ==
    /\ member_name = <<"_", "x", "_", "_">>
    /\ included = Some(FALSE)

---------------------------------------------------------------------------
(* Inputs of the parser: module bodies that hold an import, one or two     *)
(* top-level classes and a top-level function.  The class bodies are drawn *)
(* from two overloads of m, a property m with its setter, a private        *)
(* method, a nested class named Path and a statement that is no function.  *)

\* The most statements the class bodies of a module hold together.
MaxItems == 3

sHelper == <<"H", "e", "l", "p", "e", "r">>

ssetter == <<"s", "e", "t", "t", "e", "r">>

\* def name(argnames...) under the given decorators.
Def(name, argnames, decorators) ==
    FunctionDef(name, ast_arguments(<<>>, args_of(argnames), NONE, <<>>, <<>>, NONE, <<>>),
                decorators, NONE)

\* @overload def m(self, a)
Overload1 == Def(<<"m">>, <<sself, <<"a">>>>, <<Name(soverload)>>)

\* @overload def m(self, b)
Overload2 == Def(<<"m">>, <<sself, <<"b">>>>, <<Name(soverload)>>)

\* @property def m(self)
Getter == Def(<<"m">>, <<sself>>, <<Name(sproperty)>>)

\* @m.setter def m(self, v)
Setter == Def(<<"m">>, <<sself, <<"v">>>>, <<Attribute(Name(<<"m">>), ssetter)>>)

\* def _p(self)
Private == Def(<<"_", "p">>, <<sself>>, <<>>)

\* class Path: def q(self)      (inside another class)
Nested == ClassDef(sPath, <<Def(<<"q">>, <<sself>>, <<>>)>>)

\* def r()                      (at the top level of the module)
TopFunction == Def(<<"r">>, <<>>, <<>>)

BodyItems == {Overload1, Overload2, Getter, Setter, Private, Nested, OtherStmt}

\* The names of the top-level classes of a module, in order.
TopLayouts ==
    {<<sPath>>, <<sHelper>>, <<sHelper, sPath>>, <<sPurePath, sPath>>, <<sPath, sPath>>}

\* The module that holds an import, the classes named by layout with the
\* given bodies, and a function.
Module(layout, bodies) ==
    <<OtherStmt>> \o [i \in DOMAIN layout |-> ClassDef(layout[i], bodies[i])]
    \o <<TopFunction>>

---------------------------------------------------------------------------
(* The parser as a state machine: one call of _parse_stub_file.            *)

InitParse ==
    /\ \E layout \in TopLayouts : \E k \in 0..MaxItems :
          \E b1 \in SeqsOfLen(BodyItems, k) :
            \E b2 \in IF Len(layout) = 1 THEN {<<>>} ELSE SeqsUpTo(BodyItems, MaxItems - k) :
              tree = Module(layout, <<b1, b2>>)
    /\ parsed = <<>>
    /\ parse_done = FALSE
    /\ item = <<>>
    /\ extracted = <<>>
    /\ member_name = <<>>
    /\ included = <<>>
    /\ tables_idle
    /\ member_idle

Parse ==
    /\ ~parse_done
    /\ tree # <<>>
    /\ parsed' = _parse_stub_file(tree)
    /\ parse_done' = TRUE
    /\ UNCHANGED <<tree, item, extracted, member_name, included>>
    /\ UNCHANGED <<resolver_vars, differ_vars>>
    /\ UNCHANGED member_vars

NextParse == Parse

SpecParse == InitParse /\ [][NextParse]_vars

---------------------------------------------------------------------------
(* What the claims about the parser speak of.                              *)

\* The positions of the top-level classes named c.
TopClasses(c) == {i \in DOMAIN tree : tree[i].type = "ClassDef" /\ tree[i].name = c}

\* The body of the last top-level class named c.
LastBody(c) == tree[CHOOSE i \in TopClasses(c) : \A j \in TopClasses(c) : j <= i].body

\* The positions in body of the function definitions named nm.
Declarations(body, nm) ==
    {i \in DOMAIN body : body[i].type = "FunctionDef" /\ body[i].name = nm}

IsOverload(stmt) ==
    \E i \in DOMAIN stmt.decorator_list :
        stmt.decorator_list[i] = Name(<<"o", "v", "e", "r", "l", "o", "a", "d">>)

OverloadsOf(body, nm) == {i \in Declarations(body, nm) : IsOverload(body[i])}

Min(S) == CHOOSE i \in S : \A j \in S : i <= j

Max(S) == CHOOSE i \in S : \A j \in S : j <= i

\* The table parsed for class c.
ParsedTable(c) == unwrap_or(get_item(parsed, c), <<>>)

\* C17 as stated: when m is declared several times under an overload
\* decorator in a class body, the class's table holds for m the signature
\* of the first declared overload.
C17_FirstOverloadHeld ==
    parse_done =>
      \A c \in TARGET_CLASSES : TopClasses(c) # {} =>
        LET body == LastBody(c)
            ov == OverloadsOf(body, <<"m">>)
        IN  Cardinality(ov) >= 2 =>
              get_item(ParsedTable(c), <<"m">>) = Some(item_signature(c, body[Min(ov)]))

\* C17 amended: the table holds the signature of the first declared
\* overload unless a declaration of m without the overload decorator comes
\* after it, and then it holds the signature of the last such declaration;
\* a later overload never changes the entry.
C17_FirstOverloadHeldUntilPlainDeclaration ==
    parse_done =>
      \A c \in TARGET_CLASSES : TopClasses(c) # {} =>
        LET body == LastBody(c)
            ov == OverloadsOf(body, <<"m">>)
            later == {i \in Declarations(body, <<"m">>) \ ov : i > Min(ov)}
        IN  Cardinality(ov) >= 2 =>
              get_item(ParsedTable(c), <<"m">>) =
                Some(item_signature(c, body[IF later = {} THEN Min(ov) ELSE Max(later)]))

\* Path declares the overloads m(self, b) and m(self, a) in this order, and
\* its table holds m with params (b).
C17_Witness ==
    /\ parse_done
    /\ TopClasses(sPath) # {}
    /\ LastBody(sPath) = <<Overload2, Overload1>>
    /\ Len(ParsedTable(sPath)) = 1
    /\ ParsedTable(sPath)[1].key = <<"m">>
    /\ ParsedTable(sPath)[1].value.params = <<ParamInfo(<<"b">>, "positional_or_keyword", NONE)>>

\* C18: every key of the result is a target class that is a top-level class
\* of the file, and every member of its table is a function declared
\* directly in the body of a top-level class of that name; members of other
\* top-level classes, of nested classes and of the module never appear.
C18_OnlyTopLevelTargetClasses ==
    parse_done =>
      \A i \in DOMAIN parsed :
        LET c == parsed[i].key
            table == parsed[i].value
        IN  /\ c \in TARGET_CLASSES
            /\ c # sHelper
            /\ TopClasses(c) # {}
            /\ \A j \in DOMAIN table :
                 /\ table[j].key \notin {<<"q">>, <<"r">>}
                 /\ table[j].value.class_name = c
                 /\ table[j].value.method_name = table[j].key
                 /\ \E t \in TopClasses(c) : Declarations(tree[t].body, table[j].key) # {}

\* The file holds class Helper with a method m and class Path with a nested
\* class, and the result holds Path only, with an empty table.
C18_Witness ==
    /\ parse_done
    /\ \E t \in TopClasses(sHelper) : Declarations(tree[t].body, <<"m">>) # {}
    /\ \E t \in TopClasses(sPath) : tree[t].body = <<Nested>>
    /\ parsed = <<[key |-> sPath, value |-> <<>>]>>

---------------------------------------------------------------------------
(* The differ on one common key: both tables hold Path.m, declared in any  *)
(* two ways out of a range of return types, parameter lists and flags.     *)

Bracketed(outer, inner) == outer \o <<"[">> \o inner \o <<"]">>

PairReturnTypes ==
    {sSelf, sPurePath, sPurePosixPath, sPureWindowsPath, sPath, sPosixPath, sWindowsPath,
     <<"s", "t", "r">>,
     Bracketed(sIterator, sPath), Bracketed(sIterator, sSelf),
     Bracketed(sGenerator, <<"s", "t", "r">>), Bracketed(sIterator, <<"s", "t", "r">>),
     Bracketed(stuple, <<"s", "t", "r">>), Bracketed(sSequence, <<"s", "t", "r">>)}

PairParams ==
    {<<>>, <<pX>>, <<ParamInfo(<<"x">>, "keyword_only", NONE)>>}

\* property, method, classmethod, staticmethod
PairFlags ==
    {<<TRUE, FALSE, FALSE>>, <<FALSE, FALSE, FALSE>>,
     <<FALSE, TRUE, FALSE>>, <<FALSE, FALSE, TRUE>>}

PairShapes ==
    {[params |-> ps, return_type |-> rt, is_property |-> fl[1],
      is_classmethod |-> fl[2], is_staticmethod |-> fl[3]]
       : ps \in PairParams, rt \in PairReturnTypes, fl \in PairFlags}

PairKey == <<sPath, <<"m">>>>

InitPair ==
    /\ pathlib_sigs \in {<<Entry(PairKey, sh)>> : sh \in PairShapes}
    /\ pyopath_sigs \in {<<Entry(PairKey, sh)>> : sh \in PairShapes}
    /\ diffs = <<>>
    /\ prev_diffs = <<>>
    /\ calls = 0
    /\ class_sigs = <<>>
    /\ visit_order = <<>>
    /\ resolved = <<>>
    /\ resolve_done = FALSE
    /\ parser_idle
    /\ member_idle

SpecPair == InitPair /\ [][Next]_vars

---------------------------------------------------------------------------
(* What the claims about one common key speak of.                          *)

PairLeft == pathlib_sigs[1].value

PairRight == pyopath_sigs[1].value

\* Self and the six names of the path family.
StatedSelfTypes ==
    {<<"S", "e", "l", "f">>,
     <<"P", "u", "r", "e", "P", "a", "t", "h">>,
     <<"P", "u", "r", "e", "P", "o", "s", "i", "x", "P", "a", "t", "h">>,
     <<"P", "u", "r", "e", "W", "i", "n", "d", "o", "w", "s", "P", "a", "t", "h">>,
     <<"P", "a", "t", "h">>,
     <<"P", "o", "s", "i", "x", "P", "a", "t", "h">>,
     <<"W", "i", "n", "d", "o", "w", "s", "P", "a", "t", "h">>}

\* C19: _normalize_return_type maps Self and each of the six family names
\* to Self, so two members with equal parameters whose return types are any
\* two of these names yield no RETURN_TYPE_MISMATCH.
C19_FamilyNamesNormalizeToSelf ==
    Called =>
      /\ PairLeft.return_type \in StatedSelfTypes =>
           _normalize_return_type(PairLeft.return_type) = <<"S", "e", "l", "f">>
      /\ (/\ PairLeft.return_type \in StatedSelfTypes
          /\ PairRight.return_type \in StatedSelfTypes
          /\ PairLeft.params = PairRight.params)
           => \A j \in DOMAIN diffs : diffs[j].issue # "RETURN_TYPE_MISMATCH"

\* m(x) -> PurePosixPath against m(x) -> Self has been compared and reported
\* as a RETURN_TYPE_MISMATCH.
C19_Witness ==
    /\ Called
    /\ PairLeft.return_type = sPurePosixPath
    /\ PairRight.return_type = sSelf
    /\ PairLeft.params = <<pX>>
    /\ PairRight.params = <<pX>>
    /\ Len(diffs) = 1
    /\ diffs[1].issue = "RETURN_TYPE_MISMATCH"

---------------------------------------------------------------------------
(* The extraction on argument lists built by hand: ast.parse gives one     *)
(* keyword default, possibly None, per keyword-only parameter, but an      *)
(* ast.arguments node can be built with fewer, and                         *)
(* _extract_function_signature accepts it.                                 *)

\* (*, k, j) with kw_defaults [1], and (*, k) with kw_defaults [].
BuiltRestParts ==
    {[vararg |-> NONE, kwonlyargs |-> <<<<"k">>, <<"j">>>>,
      kw_defaults |-> <<Some(Constant(<<"1">>, FALSE))>>, kwarg |-> NONE],
     [vararg |-> NONE, kwonlyargs |-> <<<<"k">>>>, kw_defaults |-> <<>>, kwarg |-> NONE]}

InitExtractBuilt ==
    /\ \E pp \in PositionalParts(MaxPosOnly, MaxArgs), rp \in RestParts \cup BuiltRestParts :
          item = Some(FunctionDef(<<"m">>, Arguments(pp, rp), <<>>, NONE))
    /\ extracted = NONE
    /\ member_name = <<>>
    /\ included = <<>>
    /\ tree = <<>>
    /\ parsed = <<>>
    /\ parse_done = FALSE
    /\ tables_idle
    /\ member_idle

SpecExtractBuilt == InitExtractBuilt /\ [][NextExtract]_vars

\* The reported parameters of the given kind.
ReportedOfKind(kind) ==
    LET of_kind(q) == q.kind = kind
    IN  SelectSeq(extracted[1].params, of_kind)

SameNamesAndDefaults(ps, qs) ==
    /\ Len(ps) = Len(qs)
    /\ \A i \in DOMAIN ps :
         ps[i].name = qs[i].name /\ ps[i].default_repr = qs[i].default_repr

\* Some parameter is keyword-only on one side and not on the other.
KeywordOnlyDiffers(ps, qs) ==
    \E i \in DOMAIN ps :
        (ps[i].kind = "keyword_only") # (qs[i].kind = "keyword_only")

\* C22: two non-property members on both sides whose parameters have the
\* same names and defaults in the same order but differ in whether a
\* parameter is keyword-only are reported as a SIGNATURE_MISMATCH.
C22_KeywordOnlyCompared ==
    (/\ Called
     /\ ~PairLeft.is_property
     /\ ~PairRight.is_property
     /\ SameNamesAndDefaults(PairLeft.params, PairRight.params)
     /\ KeywordOnlyDiffers(PairLeft.params, PairRight.params))
      => \E j \in DOMAIN diffs : diffs[j].issue = "SIGNATURE_MISMATCH"

\* m(x) -> str against m(*, x) -> str has been compared and nothing is
\* reported.
C22_Witness ==
    /\ Called
    /\ ~PairLeft.is_property
    /\ ~PairRight.is_property
    /\ PairLeft.params = <<pX>>
    /\ PairRight.params = <<ParamInfo(<<"x">>, "keyword_only", NONE)>>
    /\ PairLeft.return_type = <<"s", "t", "r">>
    /\ PairRight.return_type = <<"s", "t", "r">>
    /\ diffs = <<>>

---------------------------------------------------------------------------
(* What the claims about the order of the resolved table speak of.         *)

\* C23: the key order of the table _resolve_inheritance returns is
\* determined by the parsed tables and the hierarchy: whatever order the
\* set TARGET_CLASSES is iterated in, the same tables give the same keys in
\* the same order.
C23_KeyOrderDetermined ==
    resolve_done =>
      \A order \in TargetOrders :
        keys(_resolve_inheritance(class_sigs, order)) = keys(resolved)

\* PurePath alone declares one member, the classes were visited in the
\* reverse of the declared order, and the resolved keys start with
\* WindowsPath where the declared order starts with PurePath.
C23_Witness ==
    /\ resolve_done
    /\ keys(class_sigs) = <<sPurePath>>
    /\ Len(class_sigs[1].value) = 1
    /\ visit_order = rev(DeclaredOrder)
    /\ Len(resolved) = 6
    /\ resolved[1].key[1] = sWindowsPath
    /\ _resolve_inheritance(class_sigs, DeclaredOrder)[1].key[1] = sPurePath

---------------------------------------------------------------------------
(* Member.with_type of scripts/main.py.  An object is described by what    *)
(* with_type asks of it: the name of its type and whether it is an         *)
(* instance of property, staticmethod and classmethod.                     *)

\* Member(class_name, name): member_type and source default to "default".
Member(class_name, name) ==
    [class_name |-> class_name, name |-> name,
     member_type |-> "default", source |-> "default"]

Object(type_name, is_property, is_staticmethod, is_classmethod) ==
    [type_name |-> type_name, is_property |-> is_property,
     is_staticmethod |-> is_staticmethod, is_classmethod |-> is_classmethod]

\* Member.with_type: three independent tests, then the last assignment.
with_type(self, o) ==
    LET m1 == IF o.is_property \/ o.type_name = "getset_descriptor"
              THEN [self EXCEPT !.member_type = "property"] ELSE self
        m2 == IF o.is_staticmethod THEN [m1 EXCEPT !.member_type = "staticmethod"] ELSE m1
        m3 == IF o.is_classmethod THEN [m2 EXCEPT !.member_type = "classmethod"] ELSE m2
    IN  [m3 EXCEPT !.member_type = "method"]

\* The objects _extract_members lets through: a property, a PyO3
\* getset_descriptor, a staticmethod, a classmethod, a function and a
\* method_descriptor.
MemberObjects ==
    {Object("property", TRUE, FALSE, FALSE),
     Object("getset_descriptor", FALSE, FALSE, FALSE),
     Object("staticmethod", FALSE, TRUE, FALSE),
     Object("classmethod", FALSE, FALSE, TRUE),
     Object("function", FALSE, FALSE, FALSE),
     Object("method_descriptor", FALSE, FALSE, FALSE)}

MemberAttrNames == {<<"n", "a", "m", "e">>, <<"c", "w", "d">>, <<"s", "t", "a", "t">>}

InitMember ==
    /\ \E c \in TARGET_CLASSES, n \in MemberAttrNames, o \in MemberObjects :
          /\ member = Some(Member(c, n))
          /\ obj = Some(o)
    /\ with_type_done = FALSE
    /\ parser_idle
    /\ tables_idle

WithType ==
    /\ is_some(member)
    /\ ~with_type_done
    /\ member' = Some(with_type(member[1], obj[1]))
    /\ with_type_done' = TRUE
    /\ UNCHANGED obj
    /\ UNCHANGED <<resolver_vars, differ_vars, parser_vars>>

NextMember == WithType

SpecMember == InitMember /\ [][NextMember]_vars

\* C24: with_type sets member_type to property for a property or a
\* getset_descriptor, to staticmethod for a staticmethod object, to
\* classmethod for a classmethod object, and to method only for any other
\* object.
C24_MemberTypeFollowsObject ==
    with_type_done =>
      member[1].member_type =
        (IF obj[1].is_property \/ obj[1].type_name = "getset_descriptor" THEN "property"
         ELSE IF obj[1].is_staticmethod THEN "staticmethod"
         ELSE IF obj[1].is_classmethod THEN "classmethod"
         ELSE "method")

\* with_type has been called on a property object and the Member is typed
\* method.
C24_Witness ==
    /\ with_type_done
    /\ obj[1].is_property
    /\ member[1].member_type = "method"

---------------------------------------------------------------------------
(* The differ and the classmethod / staticmethod flags.                    *)

\* The table with is_classmethod and is_staticmethod of every entry set to
\* cm and sm.
WithFlags(table, cm, sm) ==
    [i \in DOMAIN table |->
       [table[i] EXCEPT !.value.is_classmethod = cm, !.value.is_staticmethod = sm]]

\* C25: changing only is_classmethod and is_staticmethod on the entries of
\* either table leaves the returned Differences unchanged, both for a key
\* the right table holds and for one it lacks; a classmethod or staticmethod
\* against a plain method with equal rendered params and equal normalized
\* return types yields no Difference.
C25_FlagsDoNotMatter ==
    Called =>
      /\ \A lcm \in BOOLEAN, lsm \in BOOLEAN, rcm \in BOOLEAN, rsm \in BOOLEAN :
           /\ _compare_signatures(WithFlags(pathlib_sigs, lcm, lsm),
                                  WithFlags(pyopath_sigs, rcm, rsm)) = diffs
           /\ _compare_signatures(WithFlags(pathlib_sigs, lcm, lsm), <<>>)
                = _compare_signatures(pathlib_sigs, <<>>)
      /\ (/\ PairLeft.is_classmethod \/ PairLeft.is_staticmethod
          /\ ~PairRight.is_classmethod /\ ~PairRight.is_staticmethod
          /\ ~PairLeft.is_property /\ ~PairRight.is_property
          /\ params_str(PairLeft) = params_str(PairRight)
          /\ _normalize_return_type(PairLeft.return_type)
               = _normalize_return_type(PairRight.return_type))
           => diffs = <<>>

\* A classmethod m(x) -> Self has been compared with a plain method
\* m(x) -> Path and nothing was reported.
C25_Witness ==
    /\ Called
    /\ PairLeft.is_classmethod /\ ~PairLeft.is_property
    /\ ~PairRight.is_classmethod /\ ~PairRight.is_staticmethod /\ ~PairRight.is_property
    /\ PairLeft.params = <<pX>> /\ PairRight.params = <<pX>>
    /\ PairLeft.return_type = sSelf /\ PairRight.return_type = sPath
    /\ diffs = <<>>

---------------------------------------------------------------------------
(* The last stored declaration of a name.                                  *)

\* The declarations of nm in body that _process_class stores: all but the
\* overloads that follow an earlier overload of nm.
StoredDeclarations(body, nm) ==
    LET ov == OverloadsOf(body, nm)
    IN  {i \in Declarations(body, nm) : ~(i \in ov /\ \E j \in ov : j < i)}

\* C26: the table of a class holds for m the signature of the last
\* declaration of m in the body that is not skipped as a repeated overload;
\* a property followed by a declaration of the same name under name.setter
\* ends with is_property false and the parameters of the later declaration.
C26_LastStoredDeclarationWins ==
    parse_done =>
      \A c \in TARGET_CLASSES : TopClasses(c) # {} =>
        LET body == LastBody(c)
            stored == StoredDeclarations(body, <<"m">>)
            entry == get_item(ParsedTable(c), <<"m">>)
        IN  /\ stored = {} => ~is_some(entry)
            /\ stored # {} =>
                 /\ entry = Some(item_signature(c, body[Max(stored)]))
                 /\ (/\ body[Max(stored)] = Setter
                     /\ \E i \in stored : body[i] = Getter)
                      => /\ ~entry[1].is_property
                         /\ entry[1].params
                              = <<ParamInfo(<<"v">>, "positional_or_keyword", NONE)>>

\* Path declares the property m and then m under m.setter, and its table
\* holds m as a method with params (v).
C26_Witness ==
    /\ parse_done
    /\ TopClasses(sPath) # {}
    /\ LastBody(sPath) = <<Getter, Setter>>
    /\ Len(ParsedTable(sPath)) = 1
    /\ ParsedTable(sPath)[1].key = <<"m">>
    /\ ~ParsedTable(sPath)[1].value.is_property
    /\ ParsedTable(sPath)[1].value.params = <<ParamInfo(<<"v">>, "positional_or_keyword", NONE)>>

---------------------------------------------------------------------------
(* Return types with type arguments.                                       *)

\* The text of s from its first opening bracket on; empty without one.
TypeArguments(s) ==
    LET at == {i \in DOMAIN s : s[i] = "["}
    IN  IF at = {} THEN <<>> ELSE SubSeq(s, Min(at), Len(s))

BothMethodsSameParams ==
    /\ ~PairLeft.is_property
    /\ ~PairRight.is_property
    /\ PairLeft.params = PairRight.params

\* C27: a return type with type arguments is never normalized to Self and
\* keeps its type arguments as written, family names included; for equal
\* parameter lists Iterator[Path] against Iterator[Self] is reported as
\* RETURN_TYPE_MISMATCH with the two texts as written; Generator[str] is
\* normalized to Iterator[str] and reported equal to it.
C27_SelfRuleOnWholeTextOnly ==
    Called =>
      /\ \A rt \in {PairLeft.return_type, PairRight.return_type} :
           TypeArguments(rt) # <<>> =>
             /\ _normalize_return_type(rt) # <<"S", "e", "l", "f">>
             /\ TypeArguments(_normalize_return_type(rt)) = TypeArguments(rt)
      /\ (/\ BothMethodsSameParams
          /\ PairLeft.return_type = <<"I", "t", "e", "r", "a", "t", "o", "r", "[", "P", "a", "t", "h", "]">>
          /\ PairRight.return_type = <<"I", "t", "e", "r", "a", "t", "o", "r", "[", "S", "e", "l", "f", "]">>)
           => diffs = <<Difference(PairKey[1], PairKey[2], "RETURN_TYPE_MISMATCH",
                                   PairLeft.return_type, PairRight.return_type)>>
      /\ PairLeft.return_type = <<"G", "e", "n", "e", "r", "a", "t", "o", "r", "[", "s", "t", "r", "]">>
           => /\ _normalize_return_type(PairLeft.return_type)
                   = <<"I", "t", "e", "r", "a", "t", "o", "r", "[", "s", "t", "r", "]">>
              /\ (/\ BothMethodsSameParams
                  /\ PairRight.return_type
                       = <<"I", "t", "e", "r", "a", "t", "o", "r", "[", "s", "t", "r", "]">>)
                   => diffs = <<>>

\* m(x) -> Iterator[Path] has been compared with m(x) -> Iterator[Self] and
\* reported as a RETURN_TYPE_MISMATCH.
C27_Witness ==
    /\ Called
    /\ BothMethodsSameParams
    /\ PairLeft.params = <<pX>>
    /\ PairLeft.return_type = Bracketed(sIterator, sPath)
    /\ PairRight.return_type = Bracketed(sIterator, sSelf)
    /\ Len(diffs) = 1
    /\ diffs[1].issue = "RETURN_TYPE_MISMATCH"

---------------------------------------------------------------------------
(* The two directions of a comparison.                                     *)

\* The keys both tables hold.
SharedKeys ==
    {pathlib_sigs[i].key : i \in DOMAIN pathlib_sigs}
      \cap {pyopath_sigs[i].key : i \in DOMAIN pyopath_sigs}

\* The Differences of ds recorded for key k.
OnKey(ds, k) ==
    {ds[j] : j \in {i \in DOMAIN ds : ds[i].class_name = k[1] /\ ds[i].method_name = k[2]}}

\* The Difference with its two values exchanged.
Exchanged(d) == [d EXCEPT !.pathlib_val = d.pyopath_val, !.pyopath_val = d.pathlib_val]

\* C28: for every key both tables hold, the Differences that
\* _compare_signatures(L, R) records for the key are those that
\* _compare_signatures(R, L) records for it with the two values exchanged,
\* and none of them is MISSING; every other record of either direction is
\* MISSING.
C28_SwapSymmetryOnCommonKeys ==
    Called =>
      LET back == _compare_signatures(pyopath_sigs, pathlib_sigs)
      IN  /\ \A k \in SharedKeys :
                /\ {Exchanged(d) : d \in OnKey(diffs, k)} = OnKey(back, k)
                /\ \A d \in OnKey(diffs, k) : d.issue # "MISSING"
          /\ \A j \in DOMAIN diffs :
                <<diffs[j].class_name, diffs[j].method_name>> \notin SharedKeys
                  => diffs[j].issue = "MISSING"
          /\ \A j \in DOMAIN back :
                <<back[j].class_name, back[j].method_name>> \notin SharedKeys
                  => back[j].issue = "MISSING"

\* m(x) -> Self has been compared with m(x) -> str: the comparison reports
\* RETURN_TYPE_MISMATCH with values (Self, str), the opposite direction
\* reports it with values (str, Self).
C28_Witness ==
    /\ Called
    /\ SharedKeys # {}
    /\ \E k \in SharedKeys :
          /\ OnKey(diffs, k)
               = {Difference(k[1], k[2], "RETURN_TYPE_MISMATCH", sSelf, <<"s", "t", "r">>)}
          /\ OnKey(_compare_signatures(pyopath_sigs, pathlib_sigs), k)
               = {Difference(k[1], k[2], "RETURN_TYPE_MISMATCH", <<"s", "t", "r">>, sSelf)}

---------------------------------------------------------------------------
(* A target class the parsed file does not hold.                           *)

\* The parsed tables of a file that declares class c with the one member m.
OnlyClass(c, m, sh) ==
    <<[key |-> c, value |-> <<[key |-> m, value |-> Declared(c, m, sh)]>>]>>

\* C29: for a target class C without a table of its own, the resolved table
\* holds (C, m) for every member m that a listed ancestor of C declares in
\* its own table; compared as the right side against the resolved tables of
\* a file that declares C with m, the differ records no MISSING for (C, m).
C29_AbsentClassInheritsEntries ==
    resolve_done =>
      \A c \in TARGET_CLASSES : \A m \in ResolveMembers :
        (~is_some(get_item(class_sigs, c)) /\ DeclaringAncestors(c, m) # {}) =>
          /\ is_some(get_item(resolved, <<c, m>>))
          /\ \A sh \in ResolveShapes :
               LET left == _resolve_inheritance(OnlyClass(c, m, sh), visit_order)
                   ds == _compare_signatures(left, resolved)
               IN  /\ is_some(get_item(left, <<c, m>>))
                   /\ \A j \in DOMAIN ds :
                        (ds[j].class_name = c /\ ds[j].method_name = m)
                          => ds[j].issue # "MISSING"

\* The file holds no class Path, PurePath declares m, and the resolved
\* table holds (Path, m).
C29_Witness ==
    /\ resolve_done
    /\ ~is_some(get_item(class_sigs, sPath))
    /\ Declares(sPurePath, <<"m">>)
    /\ is_some(get_item(resolved, <<sPath, <<"m">>>>))
    /\ get_item(resolved, <<sPath, <<"m">>>>)[1].class_name = sPath

====
